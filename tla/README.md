# Verification of psdd: library, unique table and FPGA accelerator

The repository is a C++ library for probabilistic sentential decision diagrams
(PSDDs) and a program that evaluates a PSDD on an FPGA. This directory has TLA+
modules that model its core, TLC configurations that check them on small
instances, and proofs of the main invariants for every value of the constants.
Source paths are relative to the repository; `f.cpp:n` means `src/f.cpp`, line n.

## 1. The system

A PSDD is a directed acyclic graph. A *literal* node fixes a variable, a *true*
(top) node has a probability for each value of one, a *decision* node has
elements, each with a prime, a sub and a parameter. A vtree says which variables
the primes and subs of a level are about. Nodes belong to a manager; its unique
table makes sure that two equal nodes are one, so PSDDs share nodes.

| Part | State | Operations | What is hard | What makes it correct |
|---|---|---|---|---|
| Unique table (`psdd_unique_table.cpp`) | sets of nodes by type and vtree position, the counter `node_index_` | find or insert, delete unused, delete by flag | sequences of requests and deletions | equal structures are one node, indexes are unique, what is used stays |
| Manager (`psdd_manager.cpp`) | the table, its vtree | literal/true/decision nodes, true nodes of a vtree, normalise, load, multiply, read a file, convert an SDD | recursion over two graphs with caches | result represents the intended distribution |
| Learning and sampling (`psdd_manager.cpp:655-720, 828-986`) | vectors, counters, a scratch word in every node | passes over a serialization | nodes shared by PSDDs and calls; vectors cleared while others still run | counts of the data; nothing left behind |
| Traversals (`psdd_node.cpp`) | list, set of indexes seen | serialize, covered nodes | a list that grows while it is read | every node once, parents first |
| Node queries (`psdd_node.cpp`) | activation flags, scratch words | probability, MPE, marginals, model count, consistency | state left in nodes between queries | equal to the definition over instantiations |
| Sampling of instantiations (`psdd_node.cpp:918-924, 1047-1066, 1130-1138`) | locals, the instantiation | draw, choose an element, sample its parts | rounded comparison of a sum with a draw | elements as often as their parameters say; some element is always taken |
| Conversion to an SDD (`psdd_node.cpp:203-253`) | scratch words | a pass over a serialization | words that hold addresses of another kind | the SDD has the models of the PSDD |
| Vtree utilities (`psdd_node.cpp:22-183`) | data pointers of shared vtrees | copy, project, serialize | pointers left or not reset | the result is the vtree restricted to the variables kept |
| Stream builder (`fpga_psdd_manager.cpp:612-774`) | the stream, `node_update_cycle`, vectors | one pass over the lines of a file | distances in the stream, capacities from header constants | the launched stream is the file, operands far enough away |
| Kernel (`fpga_evaluate.cpp`) | two processes, a FIFO, a cache, a pipeline | read stream, evaluate queries | concurrency, reads before writes land, state left by the last query | every query has the reference's answer, in order |
| Inference program (`psdd_inference_main.cpp`) | buffers | build, run the kernel, compare | composition of host and kernel | results agree |
| Parameters (`psdd_parameter.cpp`) | log value, quantised hash | sums, products, comparisons | stale hash, casts | equality means the same number |
| CNF (`cnf.cpp`) | clauses | parse, compile | comments and empty lines | the formula's models |
| Data, random numbers | values | read, draw | input and output | |

Calls go from the manager to the table and to the traversals. The passes of
different calls talk to each other through the nodes: scratch word, counters,
flags. The host hands vectors to the kernel and waits; inside the kernel the
reader and the evaluator share a FIFO and the iterations of the evaluation loop
share the cache.

The hazards these give rise to are listed in `PROJECT.json`, each at its line
with the properties aimed at it.

## 2. Modules

**`PsddFile`**: lines of a file, words of the stream, log-domain numbers and
fixed-point conversions, and `Reference`, the evaluation on the CPU
(`EvaluateToCompareFPGA`). A log probability is an integer or `NegInf`. The kernel
takes the maximum over the elements of a node where the reference takes the sum;
in a deterministic network under a complete instantiation at most one element
counts, and `Deterministic` is asserted of every network in a run. A line has the id of its
node, by which later lines refer to it: `WritePsddToFile` numbers nodes by their lines
(`IdsAreLines`), but `ReadFPGAPsddFile` takes any ids. Ids are cut to the 20 bits of the kernel's
index type (`AsIndex`), weights and parameters to their fixed-point formats.

**`StreamBuilder`**: `ReadFPGAPsddFile`. `current_index` and `edge` are the place in
the file, `dram_data` the stream, `node_update_cycle` the host's table.
`ReadLiteral`, `ReadTop`, `InsertBubble` (one turn of the `while`), `PlaceEdge`,
`Crash` (assertions, vectors without room, an empty decision node), `Finish` (the
length check). `node_update_cycle` is looked up by the ids of the operands and written by the
number of the line, as in the code. `IndexAssumption` says that the header's `PSDD_SIZE` is at most
2^20, as it is in both headers of the repository. A parameter of a true node for which the header leaves no room
is written behind `bool_params`: this is undefined, and the model has both that the program
ends and that nothing is noticed. `slot_node` is a history variable: the line each word was
written for. It is written and never read by the actions.

**`FpgaKernel`**: `DramRead` is the reader, `Load`, `Literals`, `Tops`, `Issue` and
`Report` the evaluator. A pipelined loop starts iterations in order but lets their
writes land late: `Issue` puts a write into `inflight` and `Land` performs the oldest
at any time up to `Latency` words after. `Latency` is what synthesis decides,
bounded by what the host's `DELAY` allows for (`LatencyAssumption`). The
cache is one array; the code keeps two copies with the same content for ports. The loops over literals and
true nodes run as often as the header says, whatever the file has: entries the host never
set have any value of `UnsetEntries` and `UnsetParameters` (`Filled`).

**`FpgaRun`**: `StreamBuilder` extended by an instance of `FpgaKernel` whose inputs are the
host's vectors. The kernel starts when the host has launched. `RunFits` says of the inputs of a run
what the accelerator needs to answer as the reference does, and no code checks: the header
counts the nodes of the file (`HeaderFits`), ids are numbers of lines, parameters are in the range of
their formats, the network is deterministic, and for each true node and query the entry
the kernel takes is in the vector and has the right parameter (`ParametersAreTaken`). The latter says nothing about the
number of true nodes or the size of the vector as such: a header with one entry
for one true node, as in the repository, fits the queries that make its variable true; two true nodes
fit if the entries that are mixed up have equal parameters.

**`QueryService`**: the abstract specification. Queries are answered in order, each
with the expected value. `ServiceSpec` states that `FpgaRun` implements it, with
`answers <- result` and `expected <-` the reference values where `RunFits`. For other inputs it
promises no answers: spacing, FIFO and counting are still checked there, the values are not.

**`UniqueTable`**: `heap` has every node ever made, `table` the ones the table finds,
`held` the pointers of the client, `node_index_` the counter. `GetPsddLiteralNode`,
`GetPsddTopNode` and `GetPsddDecisionNode` are requests, each a `GetUniqueNode`
that inserts or finds. A decision node may have any nodes the client holds as
children, other decision nodes too, to any depth: the constant `InnerVtrees` has the variables on
either side of each inner vtree node, primes are nodes of the left side and subs of the right one
(`ElementLists`), and `MaxElements` bounds the number of elements. `DeleteUnusedPsddNodes` and
`DeletePsddNodesWithoutFlagIndexes` are the deletions. Equality is by `Equal`, as
the code has it: children by index, true nodes without their false parameter.
The split of the table by type and vtree position follows from the content and
is left out. `DeletePsddNodesWithoutFlagIndexes` looks at flags and not at
parents, so it is a client's duty to keep the flags of all descendants of what it keeps
(`FlagsCoverChildren`, a guard). Nothing in the repository calls this function, so the duty can
be read off no caller; without it the table would have nodes whose children it has
forgotten.

**`Interning`**: its abstract specification, names for structures. `StoreSpec` maps the
name of a structure to the address of its node.

**`PsddGraph`**: the nodes under the roots clients give, and what
`GetConformedPsddDecisionNode` guarantees of them: children are made before
parents, are one level of the vtree below (primes and subs are normalised for
its two children), all primes of a node are about the same variables, all its subs are, and the
two have none in common (`IsDecomposable`). Literals and true nodes are made at the vtree leaf of
their variable, so that those of one variable are of one level (`VariablesHaveLevels`). Roots of
one call are of one level.

**`Serializer`**: `SerializePsddNodes`. `PushRoot`, `PushChild` and `NextNode` are the
steps of the search whose queue is also its result.

**`Learner`**: `LearnPsddParameters` and `SampleParametersForMultiplePsdds`, as calls
in any order on the same nodes. Each runs the serializer and then its passes:
`ComputeValue` (backwards), `EndValues` (the root's context is flipped),
`ComputeContext` (forwards, adds counts, clears the vectors of the node), `MakeNode`
(backwards, through the scratch words), `ResetNode`. A vector of bits is the set
of examples whose bit is set.

**`NodeQueries`**: `IsConsistent`, `Evaluate`, `ModelCount`, `GetMPESolution`,
`GetMarginals` and `WritePsddToFile`, as calls in any order on the same nodes. Each
runs the serializer and then its loops, one action for a node: upwards
(`ActivateNode`, `EvaluateNode`, `CountNode`, `MaximizeNode`, `WriteLine`), from
the root along the best elements (`Extract`), numbering and downwards
(`NumberNode`, `DeriveNode`), and the loop that puts flags and scratch words back
(`ResetNode`). `activation_flag` and `user_data` belong to the nodes and outlive a
call; `cache`, `derivatives`, `node_queue` and `lines` are its locals. A probability
is an integer in units of which `One` make a parameter of 1: products of parameters are
then integers, and two numbers about one vtree node have the same unit. That the primes of a node exclude each other
(`DeterminismAssumption`) is what compilation from SDDs, normalisation and `Multiply` keep;
`NodesAreConformed` checks it of the manager's nodes. `IsModel` and
`Weight` define what a PSDD means, instantiation by instantiation, and the answers are
compared with that. `ReadPsddFile` is what the reader makes of a file, with the
input stream's failure at `-inf`. `IsConsistentAt` is the other `IsConsistent`, the
recursive method of the node classes, which uses no flags: `AnswerIsRight` compares the two.

**`Sampler`**: `DirectSample`. `pending` has the nodes still to sample, `Draw` and
`TryElement` are the loop of a decision node, `SampleLiteral` and `SampleTop` its ends. Any
draw of a set may come. `operator<` is `Less`: numbers whose logarithms agree up to the
seventh decimal are equal, and `hash_value` says which these are.

**`PsddManager`**: the operations that make PSDDs, as programs: a client's list of calls
whose arguments are results of earlier ones, on several managers. `nodes[g]` has
the nodes of a manager in the order of `node_index`, `user_data` the scratch words,
which one call could leave to another; the rest are the locals of the call that runs.
Its steps are those of the code's loops: a line (`ReadLine`), a node of the SDD
(`ConvertLiteral`, `ConvertDecision`), a node to load (`LoadNode`), and for `Multiply` the
beginning and end of each recursive call, on a `stack` of frames that share a
`cache`. `ConvertSddToPsdd` and `FromSdd` share a loop word by word, and so here.
`Compile` begins with the lines of a CNF file (`ClausesOf` is the parser). `NodeLogic` is the
pass of `ConvertPsddNodeToSddNode`, the way back from a PSDD to an SDD, on the same scratch words
as `LoadNode`.
`WeightIn` and `ModelsIn` define what a node means, and results are
compared with that. **`PsddNodes`** has how nodes are made, `GetUniqueNode`, `GetTrueNode`,
`NormalizePsddNode`, `GetConformedPsddDecisionNode`, as functions from the
state of a manager to the next (nodes are only added); **`Vtrees`** the vtree
utilities that change nothing, and a copy with other variables as a value; **`Fractions`** parameters as exact numbers; **`Sdds`** what is taken for granted of
the SDD package: for each function one SDD, compressed and trimmed.

**`VtreeCopies`**: `CopyVtree`, with and without a map, `ProjectVtree` and
`GetPsddManagerFromSddVtree`, as calls in any order on any part of the same vtrees. `data` has the
data pointers, in which `VisitLeaf` and `VisitInner` keep the copy of a node until its parent
takes it, or, in the last of the four, until the end.

**`Networks`**, **`SmallPsdds`** and the `MC...` modules only define constants for the
runs. **`FpgaRunProofs`** (with those of the stream builder), **`UniqueTableProofs`**,
**`SerializerProofs`**, **`LearnerProofs`**, **`AnswersProofs`**, **`SamplerProofs`**,
**`VtreeCopiesProofs`** and **`PsddManagerProofs`** have the theorems.

`PsddManager` composes what the other modules have apart: its nodes are what `PsddGraph`
assumes (`NodesAreConformed`), its requests those of `UniqueTable`, its files those of
`NodeQueries`. Nothing is deleted in it, so that a place in the list is the index of a node.

Definitions that no specification uses, such as `NeedsBubbleOneMore`, stand before the one they
are a faulty variant of: substituting one for the other must violate the property
`PROJECT.json` names under "mutants", which shows the property can fail.

## 3. Runs

| Run | Instance | What it shows |
|---|---|---|
| `stream_builder` | nine files, three of them with ids that are not the numbers of their lines; every length from 9 to 18; headers with room for one parameter or none, and with too few nodes or literals; `DELAY/II = 4` | spacing, no wasted bubble, increment bits count the lines, a launched stream is the file, the function ends |
| `fpga_run` | seven files with no, one or two true nodes, one with other ids than lines; headers that count their nodes and headers with 1 for true nodes and for parameters; two or fewer distinct instantiations, 3 queries, FIFO of 2, latency 3 | no stale read, FIFO in order, operands final, answers are the reference's, all queries answered |
| `two_true_nodes` | one file with two true nodes | the kernel's answer differs from the reference (a violation) |
| `unique_table` | the vtree ((1 2) 3): two literals of 1, one of 3, a true node of 2, decision nodes of two flags at both inner vtree nodes, up to 2 elements and 5 nodes | one node per structure, unique indexes, deletions keep what is used, names are stable |
| `top_parameters` | two true nodes that differ in the false parameter only | the request is answered with the wrong node (a violation) |
| `learner` | two graphs with shared nodes, six lists of roots, batches of 0 and 2 examples, Alpha 1 | list correct, operands ready, results are the data's counts, nothing left behind, calls return |
| `node_queries` | two graphs with shared nodes, three roots, all 27 partial instantiations of three variables, parameters in quarters | answers are those of the distribution, a file is read back as what was written, no value is read before it is set, nothing left behind, calls return |
| `zero_parameters` | the same | a PSDD with a parameter 0 is not what is read back (a violation) |
| `manager` | two managers with vtrees over 3 and 4 variables; programs that convert all 256 functions of three variables and all of each part of the second vtree and turn them back into SDDs, compile CNF files with comments, empty lines and missing ends, multiply all pairs of functions of two variables and 125 pairs of CNFs, and read, multiply, load into the other manager and load back 25 pairs of PSDDs from files, CNFs and true nodes | nodes are normalised for their vtree nodes, assertions hold, products, conversions both ways and copies mean what they should, no scratch word is left, flags are those of the call |
| `sampler` | the learner's two graphs, parameters in eighths, all draws whose hash is not that of 1 | an element is taken by exactly the draws in its share, some element always is, a sample is a possible instantiation |
| `near_one` | the same, with the draw 7/8 whose hash is that of 1 | a decision node takes no element (a violation) |
| `vtrees` | two vtrees over 4 and 3 variables, all nodes, all sets of variables, two maps, two calls of any of the four functions, the second also of what the first made | a copy or a projection is the vtree restricted to what is kept, no data pointer is left |

Why the bounds are enough. The files contain two decision nodes in a row, a node
with two parents, decision nodes as primes and a parent far from its child: the
cases with bubbles before the first edge, before a later one, and none. Lengths
around the measured one make both outcomes of the check happen; the header
variants reach each vector's end. Three queries over two instantiations make the
cache stale in both directions and wrap the query index; a FIFO of 2 is full and
empty at each boundary. `AsParameter` wraps at 128, which the weight -128 of
`Diamond` sits on. `Reordered`, `FarNumber` and `OwnNumber` have two ids exchanged, an id beyond
the vectors, and a node that refers to another by the number of its own line. `NoTops` with the header of one true node and
one parameter makes the kernel read an entry that was never set, `Chain` with it an
entry behind the vector; `NetworksFit` asserts which of these inputs fit. Five nodes are the least for a decision node whose prime is a
decision node with leaves of its own (1 and 2 below, 3 beside it), so that a
deletion has to follow two levels to keep the leaves, and for a decision node that is deleted and asked
for again, its flag being another or the same. Taller nodes after such a deletion are left to the proofs, which
have no bound. In the
learner's graphs two decision nodes share all children, two roots share a level,
a root list repeats a root, and data can be empty. The same graphs serve for the
questions: their nodes are shared by two parents and by two roots, a parameter is 0,
literals of both signs and true nodes leave variables determined and free, and a
decision node has one element or two. After any call another may follow about another root,
which is all that flags and scratch words can tell apart.

In the manager's run the vtrees are neither right- nor
left-linear, and no two variables are in the order of their numbers; a file leaves a variable of the
middle out, so that a true node must be added below the root; functions include the constants, those of
one side, and those with elements to drop; sources of one manager are loaded into another and into
the one they are of, with the flag they have and with another. Each program is
a sequence: calls of one thread do not overlap, and what they share are nodes and scratch words.

In the sampler's run 3/8 has the hash of 1/2 and 7/8 that of 1, so that roundings happen within a
sum and at its end; the graphs have nodes of one, two and nested elements. Two calls about vtrees
are what a pointer needs to be left by one and taken by the other.

Deadlock is checked in all runs. `Ended` and `Finished` are the stuttering of a
program that is done.

Fairness. `StreamBuilder`: a sequential function runs on (`WF` of `BuildStep`). `FpgaRun`: weak
fairness for the host and, each on its own, for the reader, the evaluator and the
landing of writes, since all are clocked. `Learner`: a call that has begun
runs on (`WF` of `Work`); nothing obliges a client to call. `NodeQueries`: the same. The other specifications
are safety only.

## 4. Proofs

All theorems hold for every value of the constants that satisfies the named
assumptions, which are also evaluated in the runs.

- `FpgaRunProofs`, about the stream builder: `IInv` adds to the types that every word of a node is at or
  before its entry in `node_update_cycle`, that finished lines have theirs, and that
  words of the line being read come before the end of the stream. Neither the spacing nor the
  count is inductive without it: the guard of `PlaceEdge` speaks of the table, the property of
  the words. From it: `TypeCorrect`, `Spaced` (`EdgesAreSpaced`), `CountCorrect`
  (`CountAgrees`). `NoneWasted` (`BubblesAreNeeded`) needs the converse, that each entry of the table
  is -100 or a word of its node (`UpdatedInv`), and that after a bubble an operand is at most
  `Gap` words back (`PendingInv`). It assumes `Gap <= 100`: beyond that the entries -100 of literals and
  true nodes would be kept away from too, and bubbles wasted. The code has 23. `LaunchedIsFile`
  (`LaunchedStreamIsFile`) counts the words of each line: as many as elements for lines that are
  finished, `edge` for the one being read.
- `FpgaRunProofs`, about host and kernel: `KInv` adds the positions of reader and evaluator, the content of the
  FIFO as a window of the repeated stream, and for each write in flight the word
  that issued it and its age. `NoStaleReads` follows: a write in flight is
  younger than `Latency <= DELAY/II`, and `EdgesAreSpaced` keeps its node out of the
  operands of the next word. Also `FifoCorrect` and `SameNodeCorrect`.
  What the kernel computes is the second half: `SInv` says where the maximum of a node's
  edges so far is at each moment (`max_prob`, a write in flight, the cache), for which query it is, and that
  it is the maximum of the products of those edges; that the entry of a finished line is
  the reference value of that line once its write has landed (`Landed`); and that the true node read is
  the one the file has. A maximum is the reference's sum because the network is deterministic: at most one term
  is not `NegInf`. From it `OperandsCorrect` (`OperandsAreFinal`) and
  `ServiceImplemented` (`ServiceSpec`: host and kernel implement `QueryService`). `Reference` is
  recursive over lines; that its equation has a solution, hence the values chosen for it satisfy
  it, is shown by the least-number principle. `ServiceInvariant` says `SInv` where `RunFits`, a condition on the
  inputs of the run and not on the constants, so that the theorems cover all headers, those of the
  repository too, and promise answers for the queries for which the right parameters are taken. `ParametersAreTaken` is
  needed: `two_true_nodes` is the counterexample without it. `NoStaleReads` needs only `IdsAreLines`.
- `UniqueTableProofs`: `TInv` has types, `node_index_` above every index used,
  closure of the table, and `Canonical` (no two nodes of the table are `Equal`). Closure is what
  a deletion could break. `TableTypeCorrect`, `UniqueIndexes`, `TableIsClosed`, `HeldStays`,
  `NoDuplicates`. `NInv` adds that children are older than their parents and that elements are sorted by index; then
  two nodes of the table that unfold to the same structure are one node (`StructuresInvariant`), by
  induction on age: their children, which may be decision nodes, are the same nodes by the induction hypothesis, sorted the same way, so that `Equal` holds of
  them. `ListsAreElements` shows that the lists a client may give are of nodes it holds, whatever their depth. With
  that every step is one of `Interning` or a stutter (`TableInterns`, `StoreSpec`).
  `RequestsAreAnswered` (`AnswersRequest`) holds where the true parameter of a true node decides the
  false one (`TopsAgree`), as it does when they add up to 1. The run `top_parameters` breaks just this.
- `SerializerProofs`: breadth-first search lists nodes by level. `SInv` says that
  the list is sorted by depth, spans two levels at most from the node being explored, has no
  duplicate, and contains the children of every node before it. `ParentsComeFirst` follows
  as a child is one level deeper than each parent; `ListIsComplete` from closure
  and from every element being below a root.
- `LearnerProofs`: `LInv` carries `SInv` through the call and says for each pass what
  holds of the nodes it has passed: vectors set, cleared, scratch words set, reset.
  `ScratchClean` between calls follows from the list being complete,
  `OperandsReady` from parents being first. This is the formal content of the
  reliance of lines 922-923 on the order of the list. `GInv` adds what is in the vectors: behind
  the position of each pass the examples that make a node true, and those that reach it from a
  root by elements that are true. Both are defined by the graph and not by the passes, and are unfolded as least fixed
  points. The counters are then numbers of such examples, and the new nodes, in the scratch words,
  what is to be learned of the old ones. `CountingInvariant` is its inductiveness over any sequence of
  calls, `LearningIsRight` (`ReturnsExpected`) what clients rely on, for every batch of examples and
  every number of repetitions of one (`LearnerAssumption`). What is shown is the counts and which
  of them each parameter is of; the division itself (`Parameter`) is one operator for the model and the expectation.
- `AnswersProofs`, first part: `QInv` carries `SInv` through the call as well and says, by pass and
  position, exactly which nodes have a flag that may be up, an entry in the map and a
  scratch word, and what is in the word: a number and an element of the node
  for `GetMPESolution`, a place in the list for the two that number nodes. Without the
  last part following an element could leave the node, and without the first an answer
  could use the word of another call. `OperandsSet` (`OperandsAreSet`) follows as a
  child is later than its parents; `NothingLeft` (`NothingIsLeft`) as the list is
  complete. That a decision node has a best element at all, the `CHOOSE` of `Best`, is
  `FirstLargest`, by the least-number principle for sets (`LeastOf`).
- `AnswersProofs`, the rest: that the loops compute what a PSDD means (`AnswersAreRight`, `AnswerIsRight`).
  `LoopsAreRight` says that behind the position the map has of each node its probability
  or count, and that a flag is up for the nodes with a possible model; all three are solutions of one recursion over
  the graph (`ValuesAgree`), and it has one because children are older (`SolutionExists`). With
  `QInv` it is inductive (`LoopsInvariant`). The rest is about the recursion alone:
  `SumOverInstantiations` says that the value of a node is the sum, over the instantiations of
  the variables below it that agree with the evidence, of the products along the graph. A sum of
  products over the instantiations of two disjoint sets of variables is the product of two sums
  (`SumOfProductsOfUnions`); this is where decomposability is needed. A count is that of models because the
  primes exclude each other (`CountsOnce`): otherwise an instantiation would count twice. The sums are the
  folds of the community modules; that their order does not matter, and the other laws of
  finite sums, are proved at the head of the module.
  For `GetMPESolution`, `SolutionSoFar` says that the word of a node bounds what any instantiation weighs
  there, and that an instantiation that reaches the bounds of the children of the best element reaches
  the node's: as the primes exclude each other, no other element weighs anything. While the elements are
  followed, the nodes of the queue are about different variables, and the bits set so far with bits
  that reach the bounds of the queue's nodes reach that of the root. `SolutionInvariant` is its inductiveness,
  `SolutionsAreBest` (`SolutionIsBest`) what follows when the queue is empty. For `WritePsddToFile`,
  `LinesSoFar` says that the lines are those of the list from its end, each with references to the lines
  of its children, which are later in the list and so earlier in the file (`LinesInvariant`).
  `LinesAreRead` is that `ReadPsddFile` makes of such a file the node that was written, line by line; the
  last line is the root's, as with one root the list begins with it (`RootIsFirst`). From both
  `FilesAreReadBack` (`FileIsReadBack`), for PSDDs without a parameter 0; `zero_parameters` is the
  counterexample without this. For `GetMarginals`, `DerivedTo` says what the derivatives and the marginals
  have in common at each place of the list: for each value of a variable, the marginal so far and the sum,
  over the places still to come, of derivative times marginal of the node there is the marginal of the root. A decision node
  passes on what the place gives up (`DerivedPastDecision`), a leaf adds it to its variable
  (`DerivedPastLeaf`); that parents come first is needed so that nothing is passed to a place already
  left. `MarginalsInvariant` is that this is inductive, with the numbers that stand for the places.
  The marginal of a node is a sum over paths, not yet a probability: `SharesOfNodes` relates the two, by induction
  over the graph. As all probabilities are multiples of powers of `One`, which differ from node to
  node, the relation has a power of `One` on each side, and the exponents are those of the level of
  the variable, which is why its leaves must be of one level (`LevelAssumption`) and parameters
  add up to `One`. `MarginalsRight` (`MarginalsAreRight`) follows: the two marginals are to each other as the
  probabilities, and not both 0 (`SharesAddUp`).
- `SamplerProofs`: `SInv` says that `acc` is the sum of the parameters in front of `element`
  and that no earlier sum exceeds the draw. `DrawsDecide` (`DrawDecides`, the first half of
  `SamplesAreRight`) follows as sums and hashes are monotone; `ElementIsTaken`
  (`SomeElementIsTaken`) holds where no draw has the hash of 1, which is just the condition the run
  `near_one` breaks. That parameters add up to 1 is an assumption on the PSDDs. `BInv` adds what is
  still to be sampled: the nodes of `pending` are about different variables, none of them set, and whatever
  instantiations they have under the rest lead to one of the root. A step that takes an element replaces a
  node by a prime and a sub, which are about different variables (`DecomposabilityAssumption`): without this
  the bit set by one could falsify the other. `SamplingIsRight` (`SamplesAreRight`, both halves)
  follows, also where no draw has the hash of 1: otherwise a true node could get the value of probability 0.
- `VtreeCopiesProofs`: `CopiesRestrict` (`CopiesAreRestrictions`) for any vtrees, maps and number of calls. The
  assumption on the vtrees is `IsForest`: nodes have one parent at most and are not below themselves, as the SDD package
  makes them. First the functions of vtree_util: `SerializeVtree` lists each node under the root once, parents first
  (`SerializeVtreeIs`), so that the nodes under a node are the least set with it and all children, which is
  what the other facts are derived from (`SerializationIsLeast`, `UnderInner`, `UnderApart`); `VariablesUnderVtree` returns
  the variables of the leaves (`VariablesAre`). Both are loops whose `LET` functions have to be shown to exist. `CInv` is the
  invariant of the loops. Going backwards over the list, the nodes visited whose parent is not are those that wait
  (`WaitingAfter`), and each has the pointer to the restriction of what is under it (`IsMadeOf`), or none if
  no variable there is kept. That no two waiting nodes have the same pointer is needed for the new node not to
  have one vtree on both sides; that what was made is below no other node (`IsTop`), for the heap to stay a forest, which
  the next call relies on. The last node that waits is the root. What was returned stays a restriction
  while later calls add nodes (`GrowthKeepsRestrictions`), and pointers of other nodes than those waiting are there only
  in `GetPsddManagerFromSddVtree`, which clears them in the end.

- `PsddManagerProofs`: what the operations of the manager leave behind them, for any vtrees, any number of managers and
  any program of a client (`PsddManagerAssumption` says of programs that a call uses results of earlier calls, of its own
  manager unless it loads). A node "is of a flag" if it is in some set of nodes that has the
  children of each of its nodes and the flag on each of them (`IsOfFlag`); with sets, no recursion over the nodes is needed.
  As the manager only adds nodes, a node of a flag stays one. `GetUniqueNode` may answer a request with an older
  node, which `Equal` says has the flag and the children asked for: this is the step that a comparison without flags
  (the mutant `EqualAnyFlag`) breaks. From there on up: `GetTrueNode` and its map, the nodes `NormalizePsddNode` puts on top
  of a node, the elements `GetConformedPsddDecisionNode` conforms one by one, all of them loops that the modules have as functions from
  numbers, whose existence has to be shown. `FlagInvariant` says of every local of every loop (`construct_cache`, `node_map`,
  `true_nodes_map`, scratch words, the frames of the stack with what they have collected, `cache`) that it has nodes of the
  flag of the call that runs, and between calls that there are no such locals; the results of earlier calls are of the flags of their calls.
  There is a lemma for each of the 27 actions. `FlagsAreKept` (`FlagsAreOfTheCall`) and `NoWordIsKept` (`NoWordIsLeft`, the part of
  `CopiesAreRight` that speaks of scratch words) follow.
  `NodesAreKeptNormalized` is `NodesAreNormalized`, the part of `NodesAreConformed` about vtrees: whichever operation
  makes a decision node, its primes and subs are made before it, for the two children of its vtree node, and
  literals and true nodes are for leaves. Its invariant is `FitInvariant`. A child comes to the place it is for by lifts, one parent
  and one true node at a time, and the bound of that loop is the length of the serialization: each parent
  stands in it before its children (`ParentBefore`), so that the place in the list falls with each lift (`NormalizeFits`).
  The true nodes that a lift or a false element needs come from a map that a conversion keeps from node to
  node (`TrueNodesFit`), each under the vtree node it is for (`TrueNodeFits`).
  `ProductsKeepTheModels` is `ProductsHaveModelsOfBoth`, the part of `ProductsAreRight` about functions: what the cache has for two
  nodes, and what `Multiply` returns, has exactly the models that both have (none if it is nullptr) and is for their vtree node.
  `ProductInvariant` says it of the recursion of `MultiplyWithCache`, whose frames are the stack of the model (`HaveAsked`): each call is for
  the two nodes that the call below it asked for, the first for those of the client; its elements together have the
  models of the pairs it is done with; a product of primes it keeps, and the one just returned, have the models of
  the two nodes asked for. At the end of the loops the pairs are all pairs (`PairsCover`), and an instantiation is a model of two
  decision nodes exactly if it is one of the two primes and the two subs of some pair; that the elements are then sorted, divided by the partition,
  and conformed leaves the models as they are (`GetConformedModels`): a lift adds only a true node. What a node means is a recursive function
  over the list of nodes (`Truth`); that it exists, and that nodes made later do not change it, is shown first. The invariant does not need
  primes to be exclusive.
  The hypothesis is `[]AssertionsHold`: the code goes on only if its assertions hold, and where a child is not found, or a vtree
  node has no parent, it dereferences a null pointer. The run `manager` shows that the hypothesis holds for its programs.

Only model-checked: all liveness (`HostEnds`, `AllAnswered`, `CallsReturn`, `QueriesReturn`); and of the run `manager` what
speaks of weights and of SDDs: the rest of `NodesAreConformed` (no instantiation is a model of two primes, parameters are fractions), the
rest of `ProductsAreRight` (weights multiply up to the value returned, parameters add up to 1, and a product that is not nullptr has a model),
`ConversionsAreRight`, the rest of `CopiesAreRight`, and `AssertionsHold`, which depends on them: that no product of true nodes is 0 or that a
product is over the same vtree node is true of conformed nodes with the right parameters. `WeightIn` is recursive over the nodes
and `Instantiations` over the vtree; an invariant would have to say what each cached product weighs, in exact fractions, and what each
converted SDD node means. `AnswersProofs` does this for nodes that are given and stay the same; here they are made on the way.

## 5. What the checks found

1. `fpga_evaluate.cpp:181`: the kernel indexes the parameters of true nodes by k and
   k+1, the host stores them at 2k and 2k+1. With more than one true node the
   answers differ (`two_true_nodes`). Neither header of the repository is right for
   it. The one in use (`fpga_kernel_psdd_node.h:42` and 45) has one true node and one entry for its two
   parameters: the host's second write (`fpga_psdd_manager.cpp:605-608`) and the kernel's read of entry 1
   (`fpga_evaluate.cpp:184`, for a query that makes the variable false) are behind the vector.
   The other (lines 21 and 24) has 396 true nodes and 792 entries, of which the kernel takes the first 397.
2. `psdd_node.cpp:1093`: true nodes are compared without their false parameter.
   `GetTrueNode` makes nodes with parameters (1, 1), so a request for (1, 0) may be
   answered with such a node (`top_parameters`).
3. `psdd_manager.cpp:636`: a parameter 0 is written as `-inf` (`psdd_node.cpp:733`),
   which the reader's stream does not take for a number: the element gets probability 1
   and the rest of the line is not read (`zero_parameters`). Learning with alpha 0
   makes such parameters. `FileIsReadBack` is the round trip without them.
4. `psdd_node.cpp:1065`: numbers are compared by a hash that cuts logarithms off after
   seven decimals. A draw in (1 - 1e-7, 1) is therefore not less than the sum of all
   parameters: no element is taken and the code comes to `assert(false)`, or leaves the variables
   unset where assertions are off (`near_one`). By the same comparison a true node that is
   certainly true is sampled as false.

## 6. Not modelled

The order in which the project was built is that of section 2: the accelerator, the unique table,
the passes over shared nodes, the manager, then sampling, vtrees and the way back to SDDs. What is
left out, and why:

- `SetActivationFlag`, which nothing calls. It leaves the flags set, so that it could not be one of
  the questions without breaking `NothingIsLeft`.
- Lists of roots of different levels (`psdd_node.cpp:264`): `AreRoots` excludes them. `ParentsFirst` is
  false for them, and no caller in the repository makes one.
- A pseudo count of 0 in learning: fractions do not tell 0/0 from a number.
- What happens after a write past the end of a vector sized by the header, which is undefined: the
  run ends there (`Crash`).
- The FPGA twins of node, unique table, manager and CNF: copies of the originals up to names, casts
  and formatting. Equality of nodes is the same, with the same omission (finding 2).
- `GetPsddManagerFromVtree`, which is `CopyVtree` and a constructor, and the destructors: a manager is
  there for the whole of a program.
- The compound assignments of `PsddParameter`, which do not bring the hash up to date; only
  the class itself defines them and nothing uses them.
- Rounding of floating-point numbers: parameters are exact, but for the hash in `Sampler` and the
  fixed-point numbers of the accelerator.
- The collection of unused SDDs, the SDD package as a whole, and the standard library's random
  generators and streams: `Sdds`, `Draws` and the reader's `IsCutOff` say what is relied on.
- Reading and writing binary data, CSV, options, OpenCL set-up and timing: input and output. A reader
  should know that `BinaryData::ReadFile` sets its sizes back but keeps the records, so that an
  object is to be read into once only.
- `GetPsddSize`, a sum over a serialization.
- The vendored headers (JSON, Google Test and Mock, the option parser). They are nine tenths of the
  lines of the repository; of the program's own source (`src/src` and `include/psdd` without
  the option parser, about 7300 lines, of which the FPGA twins are a third) the modules
  stand for about 2300.
