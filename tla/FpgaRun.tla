------------------------------ MODULE FpgaRun -------------------------------
(***************************************************************************)
(* The inference program: the host builds the stream from the file, passes *)
(* it to the kernel, and the kernel answers the queries.  The host's       *)
(* vectors are the kernel's inputs.                                        *)
(***************************************************************************)
EXTENDS StreamBuilder

CONSTANTS NUM_QUERIES, FIFO_DEPTH, Latency,
          InstantiationVectors,  \* possible contents of the query file
          UnsetEntries, UnsetParameters   \* what memory nobody wrote may hold

ASSUME KernelAssumption ==
         /\ NUM_QUERIES \in Nat \ {0}
         /\ FIFO_DEPTH \in Nat \ {0}
         /\ Latency \in Nat \ {0}
\* What the constant DELAY of the host is chosen for.
ASSUME LatencyAssumption == Latency <= Gap

\* Memory that is read although nobody wrote it has something of the type.
ASSUME UnsetAssumption ==
         /\ UnsetEntries # {}
         /\ UnsetEntries \subseteq [var : Nat, sign : BOOLEAN, index : Nat]
         /\ UnsetParameters # {} /\ UnsetParameters \subseteq Int

(***************************************************************************)
(* The inputs the accelerator answers as the reference does.  The header   *)
(* counts the nodes of the file, the formats of the kernel hold its        *)
(* parameters, nodes are numbered by their lines, and the network is       *)
(* deterministic.  None of this is checked by the code.                    *)
(***************************************************************************)
LinesOfKind(lines, kind) == {i \in 1..Len(lines) : lines[i].kind = kind}

HeaderFits(lines, head) ==
  /\ head.PSDD_SIZE = Len(lines)
  /\ head.TOTAL_LITERALS = Cardinality(LinesOfKind(lines, "L"))
  /\ head.TOTAL_VARIABLE_INDEXES = Cardinality(LinesOfKind(lines, "T"))

ParametersFit(lines) ==
  /\ \A i \in LinesOfKind(lines, "T") : /\ AsBoolParam(lines[i].pos) = lines[i].pos
                                       /\ AsBoolParam(lines[i].neg) = lines[i].neg
  /\ \A i \in LinesOfKind(lines, "D") : \A j \in 1..Len(lines[i].elements) :
       AsParameter(lines[i].elements[j].weight) = lines[i].elements[j].weight

QueriesFit(lines, queries) ==
  /\ Len(queries) \in Nat \ {0}
  /\ \A q \in 1..Len(queries) : Deterministic(lines, queries[q])

(***************************************************************************)
(* The parameter the kernel takes for a true node has to be the right one. *)
(* The host stores two for each, in the order of their lines; for the k-th *)
(* (from 1) the kernel takes entry k or k + 1, depending on its variable.  *)
(* So the entry taken must be in the vector, and be that of the node, or   *)
(* that of another node with the same parameter.                           *)
(***************************************************************************)
TopNumber(lines, i) == Cardinality({j \in LinesOfKind(lines, "T") : j <= i})

EntryTaken(lines, i, query) ==
  IF query[lines[i].var] THEN TopNumber(lines, i) ELSE TopNumber(lines, i) + 1

IsEntry(lines, k, x) ==
  \E i \in LinesOfKind(lines, "T") :
    \/ k = 2 * TopNumber(lines, i) - 1 /\ lines[i].pos = x
    \/ k = 2 * TopNumber(lines, i) /\ lines[i].neg = x

ParametersAreTaken(lines, head, queries) ==
  \A i \in LinesOfKind(lines, "T"), q \in 1..Len(queries) :
    /\ EntryTaken(lines, i, queries[q]) <= head.TOTAL_BOOL_PARAM
    /\ IsEntry(lines, EntryTaken(lines, i, queries[q]),
               IF queries[q][lines[i].var] THEN lines[i].pos ELSE lines[i].neg)

InputsFit(lines, head, queries) ==
  /\ HeaderFits(lines, head)
  /\ IdsAreLines(lines)
  /\ ParametersFit(lines)
  /\ ParametersAreTaken(lines, head, queries)
  /\ QueriesFit(lines, queries)

VARIABLES instantiations,
          read_m, read_n, dram_fifo, comp, m, n, cur_node_idx, max_prob,
          local_literal_vector, local_top_vector, local_bool_param_vector,
          evaluation_cache, inflight, result

Kernel == INSTANCE FpgaKernel WITH dram_port <- dram_data,
                                   literal_vector <- literals,
                                   top_vector <- tops,
                                   bool_param_vector <- bool_params

kernelVars == <<read_m, read_n, dram_fifo, comp, m, n, cur_node_idx, max_prob,
                local_literal_vector, local_top_vector, local_bool_param_vector,
                evaluation_cache, inflight, result>>
vars == <<hostVars, instantiations, kernelVars>>

RunInit == /\ Init
           /\ instantiations \in InstantiationVectors
           /\ Kernel!Init

HostStep == BuildStep /\ UNCHANGED <<instantiations, kernelVars>>

KernelStep == /\ host = "launched"
              /\ Kernel!Step
              /\ UNCHANGED <<hostVars, instantiations>>

Finished == /\ host \in {"exited", "crashed"} \/ Kernel!Done
            /\ UNCHANGED vars

RunNext == HostStep \/ KernelStep \/ Finished

(***************************************************************************)
(* The host function runs; the two processes of the kernel and its         *)
(* pipeline are driven by a clock.                                         *)
(***************************************************************************)
Running(A) == host = "launched" /\ A /\ UNCHANGED <<hostVars, instantiations>>

Fairness == /\ WF_vars(HostStep)
            /\ WF_vars(Running(Kernel!DramRead))
            /\ WF_vars(Running(Kernel!CompStep))
            /\ WF_vars(Running(Kernel!Land))

RunSpec == RunInit /\ [][RunNext]_vars /\ Fairness

-----------------------------------------------------------------------------
\* The inputs of this run fit; they never change.
RunFits == InputsFit(file, header, instantiations)

ReferenceResults ==
  [q \in 1..NUM_QUERIES |-> ReferenceResult(file, Kernel!Query(q - 1))]

(***************************************************************************)
(* The answers are those of the reference evaluation (verifyResults in     *)
(* psdd_inference_main.cpp compares them): the run implements the service  *)
(* for the inputs that fit.  For others it promises no answers, and those  *)
(* it gives are not looked at.                                             *)
(***************************************************************************)
Expected == IF RunFits THEN ReferenceResults ELSE <<>>
Answers  == IF RunFits THEN result ELSE <<>>

Service == INSTANCE QueryService WITH expected <- Expected, answers <- Answers

ServiceSpec == Service!Spec

(***************************************************************************)
(* verifyResults after the kernel has ended: for every query the reference *)
(* gives a nonzero probability, a difference prints "SOMETHING BAD         *)
(* HAPPENED" (lines 273-278).                                              *)
(***************************************************************************)
NothingBadHappened ==
  \A q \in 1..Len(result) : ReferenceResults[q] # NegInf => result[q] = ReferenceResults[q]

(***************************************************************************)
(* The pipeline never reads a cache entry too early, because of the        *)
(* bubbles the host put into the stream.                                   *)
(***************************************************************************)
NoStaleRead == host = "launched" /\ IdsAreLines(file) => Kernel!NoStaleRead

\* The FIFO between the two processes holds what lies between them.
FifoIsInOrder == host = "launched" => Kernel!FifoIsInOrder

(***************************************************************************)
(* While the decision loop runs, the node whose value it computes is the   *)
(* node for which the host wrote the word.                                 *)
(***************************************************************************)
SameNode ==
  comp = "decision" /\ n < Len(dram_data) => cur_node_idx = slot_node[n + 1]

(***************************************************************************)
(* When an edge is issued, what the cache holds for its operands is their  *)
(* value for this query: neither a value of the query before, nor a        *)
(* maximum over a part of their elements.                                  *)
(***************************************************************************)
OperandsAreFinal ==
  comp = "decision" /\ n < Len(dram_data) /\ Kernel!PipelineAdvances
  /\ DoComp(dram_data[n + 1]) /\ RunFits =>
    \A i \in {dram_data[n + 1].prime, dram_data[n + 1].sub} :
      evaluation_cache[i] = Reference(file, Kernel!Query(m))[i]

(***************************************************************************)
(* A run that is launched answers every query: the two processes never     *)
(* wait for each other forever.                                            *)
(***************************************************************************)
AllAnswered == host = "launched" ~> Len(result) = NUM_QUERIES

=============================================================================
