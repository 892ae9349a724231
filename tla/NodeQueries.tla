----------------------------- MODULE NodeQueries -----------------------------
(***************************************************************************)
(* The functions of psdd_node_util that answer a question about a PSDD:    *)
(* IsConsistent, Evaluate, ModelCount, GetMPESolution and GetMarginals,    *)
(* and WritePsddToFile.  Each runs over the serialized nodes.  Some keep   *)
(* what they compute in a map of their own, the others in the nodes, which *)
(* other PSDDs share: the activation flag and the scratch word.            *)
(*                                                                         *)
(* A probability is an integer, in units that depend only on the node of   *)
(* the vtree it is about: One is the number of units of a parameter, and   *)
(* of a leaf, that mean 1.                                                 *)
(***************************************************************************)
EXTENDS Serializer

CONSTANTS Evidences,   \* records of the variables observed and those of them that are true
          One

\* A decision node has elements: its constructor takes the first prime.
IsNormalised(g) ==
  \A n \in DOMAIN g :
    /\ g[n].type = "top" => Len(g[n].parameters) = 2
    /\ g[n].type = "decision" => g[n].primes # <<>> /\ Len(g[n].parameters) = Len(g[n].primes)
    /\ g[n].type # "literal" => SumFunction(g[n].parameters) = One

\* What a PSDD means: which instantiations, given by the variables that are true, are its models.
IsModelAt(g, x, n, model) ==
  \/ g[n].type = "literal" /\ g[n].sign = (g[n].variable \in x)
  \/ g[n].type = "top"
  \/ \E i \in DOMAIN g[n].primes : model[g[n].primes[i]] /\ model[g[n].subs[i]]
ModelUnder(g, x) == LET model[n \in DOMAIN g] == IsModelAt(g, x, n, model) IN model

\* The primes of a node have no model in common, as those of the SDDs they come from.
IsDeterministic(g) ==
  \A x \in SUBSET {g[n].variable : n \in DOMAIN g} :
    LET model == ModelUnder(g, x) IN
    \A n \in DOMAIN g : \A i, j \in DOMAIN g[n].primes :
      model[g[n].primes[i]] /\ model[g[n].primes[j]] => i = j

ASSUME NodeQueriesAssumption ==
         /\ One \in Nat \ {0}
         /\ \A g \in Structures : IsNormalised(g)
         /\ \A e \in Evidences : e.true \subseteq e.variables

ASSUME DeterminismAssumption == \A g \in Structures : IsDeterministic(g)

VARIABLES query,            \* the function that runs, or "none"
          evidence,         \* its arguments variables and instantiation
          pass, position,   \* the loop and the place in result at which it is
          activation_flag,  \* the nodes whose flag is set
          user_data,        \* the scratch words; <<>> is the word 0
          cache,            \* the local map from node_index to values
          derivatives, marginals,   \* locals of GetMarginals
          node_queue,       \* local of GetMPESolution
          lines,            \* of the file that is written
          answer

nodeVars == <<activation_flag, user_data>>
localVars == <<cache, derivatives, marginals, node_queue, lines, answer>>
vars == <<serializerVars, query, evidence, pass, position, nodeVars, localVars>>

At == result[position]
TypeOf(n) == structure[n].type
Variable(n) == structure[n].variable
Primes(n) == structure[n].primes
Subs(n) == structure[n].subs
Parameters(n) == structure[n].parameters
Elements(n) == DOMAIN Primes(n)

TrueParameter(n) == Parameters(n)[1]
FalseParameter(n) == Parameters(n)[2]

Agrees(n) == structure[n].sign = (Variable(n) \in evidence.true)
IsObserved(n) == Variable(n) \in evidence.variables

NoEvidence == [variables |-> {}, true |-> {}]

QueriesInit ==
  /\ structure \in Structures
  /\ roots = <<>>
  /\ Start
  /\ query = "none" /\ evidence = NoEvidence
  /\ pass = "none" /\ position = 0
  /\ activation_flag = {}
  /\ user_data = [n \in DOMAIN structure |-> <<>>]
  /\ cache = <<>> /\ derivatives = <<>> /\ marginals = <<>>
  /\ node_queue = <<>> /\ lines = <<>> /\ answer = <<>>

Enter(p, i) == pass' = p /\ position' = i

Begin ==
  /\ query = "none"
  /\ roots' \in {r \in RootLists : AreRoots(structure, r) /\ Len(r) = 1}
  /\ \/ query' \in {"IsConsistent", "Evaluate"} /\ evidence' \in Evidences
     \/ /\ query' \in {"ModelCount", "GetMPESolution", "GetMarginals", "WritePsddToFile"}
        /\ UNCHANGED evidence
  /\ Enter("serialize", 0)
  /\ UNCHANGED <<structure, next_root, result, node_explored, explore_index, edge,
                 nodeVars, localVars>>

Serialize ==
  /\ pass = "serialize"
  /\ SerializerNext
  /\ UNCHANGED <<query, evidence, pass, position, nodeVars, localVars>>

EndSerialize ==
  /\ pass = "serialize" /\ Serialized
  /\ IF query = "GetMarginals" THEN Enter("number", 1) ELSE Enter("up", Len(result))
  /\ UNCHANGED <<serializerVars, query, evidence, nodeVars, localVars>>

-----------------------------------------------------------------------------
(***************************************************************************)
(* One node of the loop from the children upwards.                         *)
(***************************************************************************)
Up(q) == pass = "up" /\ position > 0 /\ query = q /\ position' = position - 1

IsActivated(n) ==
  \/ TypeOf(n) = "literal" /\ (IsObserved(n) => Agrees(n))
  \/ TypeOf(n) = "top"
  \/ \E i \in Elements(n) : {Primes(n)[i], Subs(n)[i]} \subseteq activation_flag

ActivateNode ==
  /\ Up("IsConsistent")
  /\ activation_flag' = IF IsActivated(At) THEN activation_flag \cup {At} ELSE activation_flag
  /\ UNCHANGED <<serializerVars, query, evidence, pass, user_data, localVars>>

SumOfProducts(n, value, weight) ==
  SumFunction([i \in Elements(n) |-> value[Primes(n)[i]] * value[Subs(n)[i]] * weight[i]])

ProbabilityOf(n) ==
  CASE TypeOf(n) = "literal" -> IF IsObserved(n) /\ ~Agrees(n) THEN 0 ELSE One
    [] TypeOf(n) = "top" -> IF ~IsObserved(n) THEN One
                            ELSE IF Variable(n) \in evidence.true THEN TrueParameter(n)
                                                                  ELSE FalseParameter(n)
    [] TypeOf(n) = "decision" -> SumOfProducts(n, cache, Parameters(n))

EvaluateNode ==
  /\ Up("Evaluate")
  /\ cache' = [c \in DOMAIN cache \cup {At} |-> IF c = At THEN ProbabilityOf(At) ELSE cache[c]]
  /\ UNCHANGED <<serializerVars, query, evidence, pass, nodeVars, derivatives, marginals,
                 node_queue, lines, answer>>

CountOf(n) ==
  CASE TypeOf(n) = "literal" -> 1
    [] TypeOf(n) = "top" -> 2
    [] TypeOf(n) = "decision" -> SumOfProducts(n, cache, [i \in Elements(n) |-> 1])

CountNode ==
  /\ Up("ModelCount")
  /\ cache' = [c \in DOMAIN cache \cup {At} |-> IF c = At THEN CountOf(At) ELSE cache[c]]
  /\ UNCHANGED <<serializerVars, query, evidence, pass, nodeVars, derivatives, marginals,
                 node_queue, lines, answer>>

(***************************************************************************)
(* GetMPESolution leaves with each node the largest probability and where  *)
(* it comes from: a value of the variable, or the first of the best        *)
(* elements.  The first element stands when all products are 0.            *)
(***************************************************************************)
ProductOfValues(n, i) == user_data[Primes(n)[i]][1] * user_data[Subs(n)[i]][1]
Product(n, i) == user_data[Primes(n)[i]][1] * user_data[Subs(n)[i]][1] * Parameters(n)[i]
Best(n) == CHOOSE i \in Elements(n) :
             /\ \A j \in Elements(n) : Product(n, j) <= Product(n, i)
             /\ \A j \in Elements(n) : j < i => Product(n, j) < Product(n, i)

MaximumOf(n) ==
  CASE TypeOf(n) = "literal" -> <<One, 0>>
    [] TypeOf(n) = "top" -> IF TrueParameter(n) > FalseParameter(n)
                              THEN <<TrueParameter(n), 1>> ELSE <<FalseParameter(n), 0>>
    [] TypeOf(n) = "decision" -> <<Product(n, Best(n)), Best(n)>>

MaximizeNode ==
  /\ Up("GetMPESolution")
  /\ user_data' = [user_data EXCEPT ![At] = MaximumOf(At)]
  /\ UNCHANGED <<serializerVars, query, evidence, pass, activation_flag, localVars>>

(***************************************************************************)
(* WritePsddToFile writes a line for every node and leaves the line's      *)
(* number with it.  The line of a true node has the parameter for false    *)
(* first.                                                                  *)
(***************************************************************************)
WeightsTrueFirst(n) == <<TrueParameter(n), FalseParameter(n)>>
Weights(n) == <<FalseParameter(n), TrueParameter(n)>>

LineNumber == Len(result) - position

LineOf(n) ==
  CASE TypeOf(n) = "literal" -> [kind |-> "L", number |-> LineNumber, var |-> Variable(n),
                                 sign |-> structure[n].sign]
    [] TypeOf(n) = "top" -> [kind |-> "T", number |-> LineNumber, var |-> Variable(n),
                             weights |-> Weights(n)]
    [] TypeOf(n) = "decision" ->
         [kind |-> "D", number |-> LineNumber,
          elements |-> [i \in Elements(n) |-> [prime |-> user_data[Primes(n)[i]][1],
                                               sub |-> user_data[Subs(n)[i]][1],
                                               weight |-> Parameters(n)[i]]]]

WriteLine ==
  /\ Up("WritePsddToFile")
  /\ lines' = Append(lines, LineOf(At))
  /\ user_data' = [user_data EXCEPT ![At] = <<LineNumber>>]
  /\ UNCHANGED <<serializerVars, query, evidence, pass, activation_flag,
                 cache, derivatives, marginals, node_queue, answer>>

\* What the loop is followed by.  The functions with a map of their own return.
EndUp ==
  /\ pass = "up" /\ position = 0
  /\ CASE query = "IsConsistent" -> /\ answer' = <<roots[1] \in activation_flag>>
                                    /\ Enter("reset", 1)
                                    /\ UNCHANGED node_queue
       [] query \in {"Evaluate", "ModelCount"} -> /\ answer' = <<cache[roots[1]]>>
                                                  /\ Enter("return", 0)
                                                  /\ UNCHANGED node_queue
       [] query = "GetMPESolution" -> /\ answer' = [prob |-> user_data[roots[1]][1], true |-> {}]
                                      /\ node_queue' = <<roots[1]>>
                                      /\ Enter("extract", 0)
       [] query = "WritePsddToFile" -> /\ answer' = lines
                                       /\ Enter("reset", 1)
                                       /\ UNCHANGED node_queue
  /\ UNCHANGED <<serializerVars, query, evidence, nodeVars, cache, derivatives, marginals, lines>>

\* GetMPESolution follows the best elements from the root.
Extract ==
  /\ pass = "extract" /\ node_queue # <<>>
  /\ LET n == Head(node_queue) IN
       /\ node_queue' = IF TypeOf(n) = "decision"
                          THEN Tail(node_queue) \o <<Primes(n)[user_data[n][2]], Subs(n)[user_data[n][2]]>>
                          ELSE Tail(node_queue)
       /\ answer' = IF \/ TypeOf(n) = "literal" /\ structure[n].sign
                       \/ TypeOf(n) = "top" /\ user_data[n][2] = 1
                      THEN [answer EXCEPT !.true = @ \cup {Variable(n)}]
                      ELSE answer
  /\ UNCHANGED <<serializerVars, query, evidence, pass, position, nodeVars,
                 cache, derivatives, marginals, lines>>

EndExtract ==
  /\ pass = "extract" /\ node_queue = <<>>
  /\ Enter("reset", 1)
  /\ UNCHANGED <<serializerVars, query, evidence, nodeVars, localVars>>

-----------------------------------------------------------------------------
(***************************************************************************)
(* GetMarginals numbers the nodes, passes derivatives on from parents to   *)
(* children, and adds those of the leaves to the marginals.                *)
(***************************************************************************)
Place == position - 1

NumberNode ==
  /\ pass = "number" /\ position <= Len(result)
  /\ user_data' = [user_data EXCEPT ![At] = <<Place>>]
  /\ position' = position + 1
  /\ UNCHANGED <<serializerVars, query, evidence, pass, activation_flag, localVars>>

EndNumber ==
  /\ pass = "number" /\ position > Len(result)
  /\ derivatives' = [i \in 0..Len(result) - 1 |-> IF i = 0 THEN 1 ELSE 0]
  /\ Enter("down", 1)
  /\ UNCHANGED <<serializerVars, query, evidence, nodeVars, cache, marginals,
                 node_queue, lines, answer>>

DerivativeOf(n) == derivatives[user_data[n][1]]

PassedOn(n, i) ==
  LET from == {k \in Elements(n) : i \in {user_data[Primes(n)[k]][1], user_data[Subs(n)[k]][1]}} IN
  DerivativeOf(n) * SumFunctionOnSet(Parameters(n), from)

PassedOver(n, i) == IF PassedOn(n, i) > 0 THEN PassedOn(n, i) ELSE derivatives[i]
Added(n, i) == derivatives[i] + PassedOn(n, i)

MarginalOf(v) == IF v \in DOMAIN marginals THEN marginals[v] ELSE [false |-> 0, true |-> 0]

Increase(n) ==
  CASE TypeOf(n) = "literal" -> [false |-> IF structure[n].sign THEN 0 ELSE DerivativeOf(n) * One,
                                 true |-> IF structure[n].sign THEN DerivativeOf(n) * One ELSE 0]
    [] TypeOf(n) = "top" -> [false |-> DerivativeOf(n) * FalseParameter(n),
                             true |-> DerivativeOf(n) * TrueParameter(n)]

DeriveNode ==
  /\ pass = "down" /\ position <= Len(result)
  /\ IF TypeOf(At) = "decision"
       THEN /\ derivatives' = [i \in DOMAIN derivatives |-> Added(At, i)]
            /\ UNCHANGED marginals
       ELSE /\ marginals' = [v \in DOMAIN marginals \cup {Variable(At)} |->
                 IF v = Variable(At)
                   THEN [b \in {"false", "true"} |-> MarginalOf(v)[b] + Increase(At)[b]]
                   ELSE marginals[v]]
            /\ UNCHANGED derivatives
  /\ position' = position + 1
  /\ UNCHANGED <<serializerVars, query, evidence, pass, nodeVars, cache,
                 node_queue, lines, answer>>

\* At last each marginal is divided by the sum of the two; a pair stands for both fractions.
EndDown ==
  /\ pass = "down" /\ position > Len(result)
  /\ answer' = marginals
  /\ Enter("reset", 1)
  /\ UNCHANGED <<serializerVars, query, evidence, nodeVars, cache, derivatives, marginals,
                 node_queue, lines>>

-----------------------------------------------------------------------------
FlagKept(n) == activation_flag
FlagReset(n) == activation_flag \ {n}
ScratchKept(n) == IF query = "GetMarginals" THEN user_data[n] ELSE <<>>
ScratchReset(n) == <<>>

ResetNode ==
  /\ pass = "reset" /\ position <= Len(result)
  /\ IF query = "IsConsistent"
       THEN activation_flag' = FlagReset(At) /\ UNCHANGED user_data
       ELSE user_data' = [user_data EXCEPT ![At] = ScratchReset(At)] /\ UNCHANGED activation_flag
  /\ position' = position + 1
  /\ UNCHANGED <<serializerVars, query, evidence, pass, localVars>>

EndReset ==
  /\ pass = "reset" /\ position > Len(result)
  /\ Enter("return", 0)
  /\ UNCHANGED <<serializerVars, query, evidence, nodeVars, localVars>>

\* The locals of the call go out of scope.
Return ==
  /\ pass = "return"
  /\ query' = "none" /\ evidence' = NoEvidence /\ roots' = <<>>
  /\ next_root' = 1 /\ result' = <<>> /\ node_explored' = {}
  /\ explore_index' = 1 /\ edge' = 1
  /\ cache' = <<>> /\ derivatives' = <<>> /\ marginals' = <<>>
  /\ node_queue' = <<>> /\ lines' = <<>> /\ answer' = <<>>
  /\ Enter("none", 0)
  /\ UNCHANGED <<structure, nodeVars>>

Work == \/ Serialize \/ EndSerialize
        \/ ActivateNode \/ EvaluateNode \/ CountNode \/ MaximizeNode \/ WriteLine
        \/ EndUp \/ Extract \/ EndExtract
        \/ NumberNode \/ EndNumber \/ DeriveNode \/ EndDown
        \/ ResetNode \/ EndReset \/ Return

Next == Begin \/ Work

\* A call that has begun runs on.
Spec == QueriesInit /\ [][Next]_vars /\ WF_vars(Work)

-----------------------------------------------------------------------------
(***************************************************************************)
(* Flags and scratch words are of nodes of the manager, and a scratch word *)
(* holds what the function that runs puts there: a value and a choice, or  *)
(* a place in the list.                                                    *)
(***************************************************************************)
QueriesTypeOK ==
  /\ structure \in Structures
  /\ node_explored \subseteq DOMAIN structure
  /\ result \in Seq(DOMAIN structure)
  /\ query \in {"none", "IsConsistent", "Evaluate", "ModelCount", "GetMPESolution",
                "GetMarginals", "WritePsddToFile"}
  /\ position \in 0..Len(result) + 1
  /\ activation_flag \subseteq DOMAIN structure
  /\ DOMAIN user_data = DOMAIN structure
  /\ DOMAIN cache \subseteq DOMAIN structure
  /\ \A n \in DOMAIN structure :
       \/ user_data[n] = <<>>
       \/ query = "GetMPESolution" /\ user_data[n] \in Nat \X Nat
       \/ query \in {"GetMarginals", "WritePsddToFile"} /\ user_data[n] \in Seq(0..Len(result) - 1)
  /\ DOMAIN derivatives \subseteq Nat

(***************************************************************************)
(* The functions meet children before parents, or parents before children, *)
(* as they need: no value is read before it is computed in this call.  The *)
(* map of a function would silently make a value of 0 for a node it has    *)
(* not met, and a scratch word of 0 would be followed as a pointer.        *)
(***************************************************************************)
OperandsAreSet ==
  LET operands == ChildrenIn(structure, At) IN
  /\ pass = "up" /\ position > 0 =>
       CASE query = "IsConsistent" -> operands \subseteq FromOn(position + 1)
         [] query \in {"Evaluate", "ModelCount"} -> operands \subseteq DOMAIN cache
         [] OTHER -> \A c \in operands : user_data[c] # <<>>
  /\ pass = "down" /\ position <= Len(result) =>
       \A c \in operands \cup {At} : user_data[c] # <<>>
  /\ pass = "extract" => \A n \in Range(node_queue) : user_data[n] # <<>>

(***************************************************************************)
(* What a PSDD says of a complete instantiation of the variables below its *)
(* root: whether it is a model, and its probability.                       *)
(***************************************************************************)
Root == roots[1]
Scope == VariablesUnder(structure, Root)
Instantiations == SUBSET Scope

IsModel(x) == ModelUnder(structure, x)[Root]

WeightAt(x, n, weight) ==
  CASE TypeOf(n) = "literal" -> IF structure[n].sign = (Variable(n) \in x) THEN One ELSE 0
    [] TypeOf(n) = "top" -> IF Variable(n) \in x THEN TrueParameter(n) ELSE FalseParameter(n)
    [] TypeOf(n) = "decision" -> SumOfProducts(n, weight, Parameters(n))
Weight(x) == LET weight[n \in DOMAIN structure] == WeightAt(x, n, weight) IN weight[Root]

Agreeing == {x \in Instantiations : \A v \in Scope \cap evidence.variables :
                                      v \in x <=> v \in evidence.true}
TotalWeight(xs) == SumFunction([x \in xs |-> Weight(x)])

(***************************************************************************)
(* The answers, after any calls about any PSDDs that share nodes: a PSDD   *)
(* is consistent with the evidence if it has a model that agrees with it,  *)
(* the probability of the evidence is that of all instantiations that      *)
(* agree, and the count is that of the models.  The nodes' own             *)
(* IsConsistent, which changes nothing, gives the same answer.             *)
(***************************************************************************)
IsConsistentAt(root) ==
  LET consistent[n \in DOMAIN structure] ==
        \/ TypeOf(n) = "literal" /\ (IsObserved(n) => Agrees(n))
        \/ TypeOf(n) = "top"
        \/ \E i \in Elements(n) : consistent[Primes(n)[i]] /\ consistent[Subs(n)[i]]
  IN  consistent[root]

AnswerIsRight ==
  pass = "return" =>
    /\ query = "IsConsistent" => /\ answer = <<\E x \in Agreeing : IsModel(x)>>
                                 /\ answer = <<IsConsistentAt(Root)>>
    /\ query = "Evaluate" => answer = <<TotalWeight(Agreeing)>>
    /\ query = "ModelCount" => answer = <<Cardinality({x \in Instantiations : IsModel(x)})>>

(***************************************************************************)
(* The solution of GetMPESolution has the probability it comes with, and   *)
(* no instantiation has a larger one.                                      *)
(***************************************************************************)
SolutionIsBest ==
  pass = "return" /\ query = "GetMPESolution" =>
    /\ Weight(answer.true) = answer.prob
    /\ \A x \in Instantiations : Weight(x) <= answer.prob

(***************************************************************************)
(* The marginals of all variables are the fractions of the probability of  *)
(* all instantiations in which the variable is false and true.             *)
(***************************************************************************)
MarginalsAreRight ==
  pass = "return" /\ query = "GetMarginals" =>
    /\ DOMAIN answer = Scope
    /\ \A v \in Scope :
         answer[v].true * TotalWeight({x \in Instantiations : v \notin x}) =
         answer[v].false * TotalWeight({x \in Instantiations : v \in x})
    /\ \A v \in Scope : answer[v].true + answer[v].false > 0

(***************************************************************************)
(* The file is what its readers take for granted: the lines have their     *)
(* numbers in order, elements refer to lines before, and ReadPsddFile,     *)
(* which puts the nodes of the lines into construct_cache and returns the  *)
(* last, makes a node with the content of the one that was written if no   *)
(* parameter is 0.  (Up to the six decimals of its logarithm that          *)
(* std::to_string keeps of a parameter; a quarter is told from another by  *)
(* the first.)                                                             *)
(***************************************************************************)
TreeAt(n, tree) ==
  CASE TypeOf(n) = "literal" -> <<Variable(n), structure[n].sign>>
    [] TypeOf(n) = "top" -> <<Variable(n), TrueParameter(n), FalseParameter(n)>>
    [] TypeOf(n) = "decision" -> {<<tree[Primes(n)[i]], tree[Subs(n)[i]], Parameters(n)[i]>> :
                                    i \in Elements(n)}
NodeTree == LET tree[n \in DOMAIN structure] == TreeAt(n, tree) IN tree

\* std::to_string writes the logarithm of 0 as -inf.  The reader's stream does not take it for
\* a number: it leaves 0, the logarithm of One, and reads nothing more of the line.
IsCutOff(weights, i) == \E j \in 1..i - 1 : weights[j] = 0
NotRead == -1
ReadWeight(weights, i) == IF IsCutOff(weights, i) THEN NotRead
                          ELSE IF weights[i] = 0 THEN One ELSE weights[i]

EntryOf(file, number) == CHOOSE i \in DOMAIN file : file[i].number = number
WeightsOf(line) == [j \in DOMAIN line.elements |-> line.elements[j].weight]
NodeAt(file, line, construct_cache) ==
  CASE line.kind = "L" -> <<line.var, line.sign>>
    [] line.kind = "T" -> <<line.var, ReadWeight(line.weights, 2), ReadWeight(line.weights, 1)>>
    [] line.kind = "D" -> {IF IsCutOff(WeightsOf(line), j) THEN <<>>
                           ELSE <<construct_cache[EntryOf(file, line.elements[j].prime)],
                                  construct_cache[EntryOf(file, line.elements[j].sub)],
                                  ReadWeight(WeightsOf(line), j)>> : j \in DOMAIN line.elements}
ReadPsddFile(file) ==
  LET construct_cache[i \in DOMAIN file] == NodeAt(file, file[i], construct_cache)
  IN  construct_cache[Len(file)]

IsWritten == pass = "return" /\ query = "WritePsddToFile"
HasZeroParameter == \E n \in Below(structure, roots) : 0 \in Range(Parameters(n))

FileIsReadBack ==
  IsWritten =>
    /\ \A i \in DOMAIN answer :
         /\ answer[i].number = i - 1
         /\ answer[i].kind = "D" => \A j \in DOMAIN answer[i].elements :
              {answer[i].elements[j].prime, answer[i].elements[j].sub} \subseteq 0..i - 2
    /\ ~HasZeroParameter => ReadPsddFile(answer) = NodeTree[Root]

(***************************************************************************)
(* What the head of every file says: an element has the identifiers of its *)
(* prime and its sub and the logarithm of its parameter, whatever that is. *)
(* (A reader that takes the three finds the PSDD that was written.)        *)
(***************************************************************************)
EveryFileIsReadBack == IsWritten => ReadPsddFile(answer) = NodeTree[Root]

(***************************************************************************)
(* Between calls all flags are down and all scratch words are 0: the       *)
(* functions set flags and never clear one they do not set.                *)
(***************************************************************************)
NothingIsLeft ==
  query = "none" => activation_flag = {} /\ \A n \in DOMAIN structure : user_data[n] = <<>>

\* Every call returns.
QueriesReturn == query # "none" ~> query = "none"

=============================================================================
