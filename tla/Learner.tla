------------------------------- MODULE Learner -------------------------------
(***************************************************************************)
(* LearnPsddParameters and SampleParametersForMultiplePsdds: passes over   *)
(* the serialized nodes that leave their intermediate results in the nodes *)
(* themselves, and that must find these clean and leave them clean, since  *)
(* the nodes are shared with other PSDDs of the manager.                   *)
(*                                                                         *)
(* A batch of data is, for every variable, the set of the examples in      *)
(* which it is true; a vector of data_size bits is the set of the examples *)
(* whose bit is set.  A node the manager makes is its content: equal       *)
(* contents are one node (UniqueTable).  A parameter that is learned is    *)
(* the fraction count / total; sampled ones are not told apart.            *)
(***************************************************************************)
EXTENDS Serializer

CONSTANTS Batches,      \* the data: records of data_size and examples
          Alpha         \* the pseudo count of every parameter

ASSUME LearnerAssumption == \A b \in Batches : b.data_size \in Nat

VARIABLES call,           \* what is computed: "none", "learn", "sample"
          pass,           \* which loop runs
          position,       \* the place in result at which it is
          batch,          \* the data_size and the examples of the call
          filled,         \* the nodes whose two vectors have data_size bits
          value, context, \* their batched_psdd_value_ and ..._context_value_
          data_counts,    \* the counts of a node
          user_data,      \* its scratch word: the node that replaces it
          returned        \* the nodes the call is to return

passVars == <<call, pass, position, batch, filled, value, context,
              data_counts, user_data, returned>>
vars == <<serializerVars, passVars>>

Null == [type |-> "null"]
At == result[position]
TypeOf(n) == structure[n].type
Primes(n) == structure[n].primes
Subs(n) == structure[n].subs
Elements(n) == DOMAIN Primes(n)
AllExamples == 1..batch.data_size

\* A true node counts its two values, a decision node its elements.
Counters(g, n) == IF g[n].type = "top" THEN {"true", "false"} ELSE DOMAIN g[n].primes
NoCounts(g, n) == [k \in Counters(g, n) |-> 0]

NoBatch == [data_size |-> 0, examples |-> <<>>]

LearnerInit ==
  /\ structure \in Structures
  /\ roots = <<>>
  /\ Start
  /\ call = "none" /\ pass = "return" /\ position = 0
  /\ batch = NoBatch
  /\ filled = {}
  /\ value = [n \in DOMAIN structure |-> {}]
  /\ context = [n \in DOMAIN structure |-> {}]
  /\ data_counts = [n \in DOMAIN structure |-> NoCounts(structure, n)]
  /\ user_data = [n \in DOMAIN structure |-> Null]
  /\ returned = <<>>

Enter(p, i) == pass' = p /\ position' = i

\* A call: Learn has one root and data, Sample any roots.
BeginCall ==
  /\ call = "none"
  /\ roots' \in {r \in RootLists : AreRoots(structure, r)}
  /\ \/ call' = "learn" /\ Len(roots') = 1 /\ batch' \in Batches
     \/ call' = "sample" /\ UNCHANGED batch
  /\ Enter("serialize", 0)
  /\ UNCHANGED <<structure, next_root, result, node_explored, explore_index, edge,
                 filled, value, context, data_counts, user_data, returned>>

Serialize ==
  /\ pass = "serialize"
  /\ SerializerNext
  /\ UNCHANGED passVars

\* Without data there is nothing to count.
EndSerialize ==
  /\ pass = "serialize" /\ Serialized
  /\ IF call = "learn" /\ batch.data_size # 0
       THEN Enter("values", Len(result))
       ELSE Enter("parameters", Len(result))
  /\ UNCHANGED <<serializerVars, call, batch, filled, value, context,
                 data_counts, user_data, returned>>

-----------------------------------------------------------------------------
(***************************************************************************)
(* The examples under which a node is true, from the children upwards.     *)
(***************************************************************************)
ValueOf(n) ==
  CASE TypeOf(n) = "literal" ->
         {x \in AllExamples : (x \in batch.examples[structure[n].variable]) = structure[n].sign}
    [] TypeOf(n) = "top" -> AllExamples
    [] TypeOf(n) = "decision" ->
         UNION {value[Primes(n)[i]] \cap value[Subs(n)[i]] : i \in Elements(n)}

ComputeValue ==
  /\ pass = "values" /\ position > 0
  /\ value' = [value EXCEPT ![At] = ValueOf(At)]
  /\ context' = [context EXCEPT ![At] = {}]
  /\ filled' = filled \cup {At}
  /\ position' = position - 1
  /\ UNCHANGED <<serializerVars, call, pass, batch, data_counts, user_data, returned>>

\* The context of the root is flipped to all examples.
EndValues ==
  /\ pass = "values" /\ position = 0
  /\ context' = [context EXCEPT ![roots[1]] = AllExamples \ @]
  /\ Enter("contexts", 1)
  /\ UNCHANGED <<serializerVars, call, batch, filled, value,
                 data_counts, user_data, returned>>

(***************************************************************************)
(* The examples that reach a node, from the parents downwards: each        *)
(* element passes on those of its node that make it true, and counts them. *)
(* The vectors of the node are cleared when it is done.                    *)
(***************************************************************************)
FlowIgnoringSub(n, i) == context[n] \cap value[Primes(n)[i]]
Flow(n, i) == context[n] \cap value[Primes(n)[i]] \cap value[Subs(n)[i]]

CountsOf(n) ==
  IF TypeOf(n) = "top"
    THEN LET trueIn == batch.examples[structure[n].variable] IN
         [true |-> Cardinality(context[n] \cap trueIn),
          false |-> Cardinality(context[n] \ trueIn)]
    ELSE [i \in Elements(n) |-> Cardinality(Flow(n, i))]

ClearedWithPrimes(n) == {n} \cup Range(Primes(n))
Cleared(n) == {n}

ComputeContext ==
  /\ pass = "contexts" /\ position <= Len(result)
  /\ context' = [c \in DOMAIN context |->
                   IF c \in Cleared(At) THEN {}
                   ELSE context[c] \cup UNION {Flow(At, i) :
                          i \in {k \in Elements(At) : c \in {Primes(At)[k], Subs(At)[k]}}}]
  /\ value' = [c \in DOMAIN value |-> IF c \in Cleared(At) THEN {} ELSE value[c]]
  /\ data_counts' = [data_counts EXCEPT ![At] = [k \in DOMAIN @ |-> @[k] + CountsOf(At)[k]]]
  /\ filled' = filled \ Cleared(At)
  /\ position' = position + 1
  /\ UNCHANGED <<serializerVars, call, pass, batch, user_data, returned>>

EndContexts ==
  /\ pass = "contexts" /\ position > Len(result)
  /\ Enter("parameters", Len(result))
  /\ UNCHANGED <<serializerVars, call, batch, filled, value, context,
                 data_counts, user_data, returned>>

-----------------------------------------------------------------------------
(***************************************************************************)
(* The new nodes, from the children upwards: a child is found through the  *)
(* scratch word of the old one.                                            *)
(***************************************************************************)
Total(counts) == FoldFunction(+, 0, counts)
Parameter(counts, k) ==
  IF call = "learn"
    THEN <<counts[k] + Alpha, Total(counts) + Alpha * Cardinality(DOMAIN counts)>>
    ELSE "sampled"

NewNode(n) ==
  CASE TypeOf(n) = "literal" ->
         [type |-> "literal", variable |-> structure[n].variable, sign |-> structure[n].sign]
    [] TypeOf(n) = "top" ->
         [type |-> "top", variable |-> structure[n].variable,
          true_parameter |-> Parameter(data_counts[n], "true"),
          false_parameter |-> Parameter(data_counts[n], "false")]
    [] TypeOf(n) = "decision" ->
         [type |-> "decision",
          elements |-> {<<user_data[Primes(n)[i]], user_data[Subs(n)[i]],
                          Parameter(data_counts[n], i)>> : i \in Elements(n)}]

MakeNode ==
  /\ pass = "parameters" /\ position > 0
  /\ user_data' = [user_data EXCEPT ![At] = NewNode(At)]
  /\ position' = position - 1
  /\ UNCHANGED <<serializerVars, call, pass, batch, filled, value, context,
                 data_counts, returned>>

EndParameters ==
  /\ pass = "parameters" /\ position = 0
  /\ returned' = [r \in DOMAIN roots |-> user_data[roots[r]]]
  /\ Enter("reset", 1)
  /\ UNCHANGED <<serializerVars, call, batch, filled, value, context,
                 data_counts, user_data>>

ResetCountsNever(n) == data_counts[n]
ResetCounts(n) == IF call = "learn" THEN NoCounts(structure, n) ELSE data_counts[n]

ResetScratch(n) == Null

ResetNode ==
  /\ pass = "reset" /\ position <= Len(result)
  /\ data_counts' = [data_counts EXCEPT ![At] = ResetCounts(At)]
  /\ user_data' = [user_data EXCEPT ![At] = ResetScratch(At)]
  /\ position' = position + 1
  /\ UNCHANGED <<serializerVars, call, pass, batch, filled, value, context, returned>>

\* The locals of the call go out of scope.
Return ==
  /\ pass = "reset" /\ position > Len(result)
  /\ call' = "none" /\ batch' = NoBatch /\ returned' = <<>> /\ roots' = <<>>
  /\ next_root' = 1 /\ result' = <<>> /\ node_explored' = {}
  /\ explore_index' = 1 /\ edge' = 1
  /\ Enter("return", 0)
  /\ UNCHANGED <<structure, filled, value, context, data_counts, user_data>>

Work == \/ Serialize \/ EndSerialize \/ ComputeValue \/ EndValues
        \/ ComputeContext \/ EndContexts \/ MakeNode \/ EndParameters
        \/ ResetNode \/ Return

Next == BeginCall \/ Work

\* A call that has begun runs on.
Spec == LearnerInit /\ [][Next]_vars /\ WF_vars(Work)

-----------------------------------------------------------------------------
(***************************************************************************)
(* No pass reads what is not there yet or not there any more: the vectors  *)
(* of the children, which a pass before set and only the last parent may   *)
(* be followed by their clearing (lines 922-923), and their new nodes.     *)
(***************************************************************************)
OperandsAreReady ==
  LET operands == ChildrenIn(structure, At) IN
  /\ pass = "values" /\ position > 0 => operands \subseteq filled
  /\ pass = "contexts" /\ position <= Len(result) => operands \cup {At} \subseteq filled
  /\ pass = "parameters" /\ position > 0 => \A c \in operands : user_data[c] # Null

(***************************************************************************)
(* What a call should return, by the meaning of a PSDD: an example takes   *)
(* the elements that it makes true, from the root downwards, and an        *)
(* element's parameter is the fraction of the examples at its node that    *)
(* take it, the pseudo counts added.                                       *)
(***************************************************************************)
MakesTrue(g, examples, x, n, true) ==
  \/ g[n].type = "literal" /\ g[n].sign = (x \in examples[g[n].variable])
  \/ g[n].type = "top"
  \/ \E i \in DOMAIN g[n].primes : true[g[n].primes[i]] /\ true[g[n].subs[i]]

IsTrueUnder(g, examples, x) ==
  LET true[n \in DOMAIN g] == MakesTrue(g, examples, x, n, true) IN true

Takes(g, examples, x, n, i) ==
  LET true == IsTrueUnder(g, examples, x) IN true[g[n].primes[i]] /\ true[g[n].subs[i]]

Reaches(g, examples, root, x, n, reached) ==
  \/ n = root
  \/ \E p \in DOMAIN g : \E i \in DOMAIN g[p].primes :
       n \in {g[p].primes[i], g[p].subs[i]} /\ reached[p] /\ Takes(g, examples, x, p, i)

IsReachedBy(g, examples, root, x) ==
  LET reached[n \in DOMAIN g] == Reaches(g, examples, root, x, n, reached) IN reached

ExpectedCounts(g, data, root, n) ==
  LET reaching == {x \in 1..data.data_size : IsReachedBy(g, data.examples, root, x)[n]} IN
  IF g[n].type = "top"
    THEN LET trueIn == data.examples[g[n].variable] IN
         [true |-> Cardinality(reaching \cap trueIn), false |-> Cardinality(reaching \ trueIn)]
    ELSE [i \in DOMAIN g[n].primes |->
            Cardinality({x \in reaching : Takes(g, data.examples, x, n, i)})]

ExpectedParameters(n) ==
  LET counts == IF call = "learn" THEN ExpectedCounts(structure, batch, roots[1], n)
                                  ELSE NoCounts(structure, n)
  IN  [k \in Counters(structure, n) |-> Parameter(counts, k)]

LearnedNode(g, parameters, n, learned) ==
  CASE g[n].type = "literal" ->
         [type |-> "literal", variable |-> g[n].variable, sign |-> g[n].sign]
    [] g[n].type = "top" ->
         [type |-> "top", variable |-> g[n].variable,
          true_parameter |-> parameters[n]["true"], false_parameter |-> parameters[n]["false"]]
    [] g[n].type = "decision" ->
         [type |-> "decision",
          elements |-> {<<learned[g[n].primes[i]], learned[g[n].subs[i]], parameters[n][i]>> :
                          i \in DOMAIN g[n].primes}]

LearnedNodes(g, parameters) ==
  LET learned[n \in DOMAIN g] == LearnedNode(g, parameters, n, learned) IN learned

Expected ==
  LET learned == LearnedNodes(structure, [n \in DOMAIN structure |-> ExpectedParameters(n)])
  IN  [r \in DOMAIN roots |-> learned[roots[r]]]

ReturnsExpected == pass = "reset" /\ position = 1 => returned = Expected

(***************************************************************************)
(* Between calls no node carries anything over into the next call, which   *)
(* may be about a PSDD that shares it: counters are added to and never     *)
(* set, and the scratch word is everybody's.                               *)
(***************************************************************************)
ScratchIsClean ==
  call = "none" => /\ filled = {}
                   /\ \A n \in DOMAIN structure : /\ user_data[n] = Null
                                                  /\ data_counts[n] = NoCounts(structure, n)

\* Every call returns.
CallsReturn == call # "none" ~> call = "none"

=============================================================================
