----------------------------- MODULE FpgaKernel -----------------------------
(***************************************************************************)
(* The kernel fpga_evaluate: two processes connected by a FIFO.  dram_read *)
(* writes the words of the stream into the FIFO, once for every query;     *)
(* comp takes them out, and for every query fills a cache with the values  *)
(* of the literal and true nodes, then runs the decision loop over the     *)
(* words of the stream, and reports the value of the last node.            *)
(*                                                                         *)
(* The decision loop is a pipeline.  An iteration reads its operands when  *)
(* it is issued; the value it writes lands in the cache later, while the   *)
(* next iterations run.  "inflight" holds the writes on their way: one may *)
(* land at any time, and lands before the iteration Latency after its own  *)
(* is issued.  That two caches are kept (one per read port) is left out:   *)
(* they always hold the same values.                                       *)
(***************************************************************************)
EXTENDS PsddFile

CONSTANTS NUM_QUERIES, FIFO_DEPTH, Latency,
          UnsetEntries,      \* what an entry the host did not set may hold,
          UnsetParameters    \* and one of the parameters, or behind them

VARIABLES
  dram_port, literal_vector, top_vector, bool_param_vector,
  header, instantiations,     \* what the host passes: never changes
  read_m, read_n,             \* dram_read: its loop counters
  dram_fifo,
  comp,                       \* comp: where it is
  m, n,                       \* its loop counters: query and word
  cur_node_idx, max_prob,     \* registers of the decision loop
  local_literal_vector, local_top_vector, local_bool_param_vector,
  evaluation_cache,
  inflight,                   \* writes of the decision loop not yet landed
  result

inputVars  == <<dram_port, literal_vector, top_vector, bool_param_vector,
                header, instantiations>>
readerVars == <<read_m, read_n>>
localVars  == <<local_literal_vector, local_top_vector, local_bool_param_vector>>
loopVars   == <<n, cur_node_idx, max_prob>>
kernelVars == <<read_m, read_n, dram_fifo, comp, m, n, cur_node_idx, max_prob,
                localVars, evaluation_cache, inflight, result>>

LoopLen == header.MERGED_LOOP_LEN
Nodes   == 0..header.PSDD_SIZE - 1

TopsLen == header.TOTAL_VARIABLE_INDEXES

\* The instantiation of query q.
Query(q) == instantiations[(q % Len(instantiations)) + 1]

-----------------------------------------------------------------------------
\* Static arrays start as zeros, and 0 is the logarithm of 1.
Init ==
  /\ read_m = 0
  /\ read_n = 0
  /\ dram_fifo = <<>>
  /\ comp = "load"
  /\ m = 0
  /\ n = 0
  /\ cur_node_idx = 0
  /\ max_prob = NegInf
  /\ local_literal_vector = <<>>
  /\ local_top_vector = <<>>
  /\ local_bool_param_vector = <<>>
  /\ evaluation_cache = [i \in Nodes |-> 0]
  /\ inflight = <<>>
  /\ result = <<>>

-----------------------------------------------------------------------------
(* dram_read *)

\* The stream is sent once for every query; a full FIFO blocks the writer.
DramReadOnce ==   \* the outer loop forgotten
  /\ read_m = 0 /\ read_n < LoopLen
  /\ Len(dram_fifo) < FIFO_DEPTH
  /\ dram_fifo' = Append(dram_fifo, dram_port[read_n + 1])
  /\ read_n' = read_n + 1
  /\ UNCHANGED <<read_m, comp, m, n, cur_node_idx, max_prob,
                 localVars, evaluation_cache, inflight, result>>
DramReadNoRewind ==   \* the inner counter not reset exactly
  /\ read_m < NUM_QUERIES
  /\ Len(dram_fifo) < FIFO_DEPTH
  /\ dram_fifo' = Append(dram_fifo, dram_port[read_n + 1])
  /\ IF read_n + 1 = LoopLen
       THEN read_m' = read_m + 1 /\ read_n' = IF read_m + 1 < NUM_QUERIES THEN 1 ELSE 0
       ELSE read_n' = read_n + 1 /\ UNCHANGED read_m
  /\ UNCHANGED <<comp, m, n, cur_node_idx, max_prob,
                 localVars, evaluation_cache, inflight, result>>
DramRead ==
  /\ read_m < NUM_QUERIES
  /\ Len(dram_fifo) < FIFO_DEPTH
  /\ dram_fifo' = Append(dram_fifo, dram_port[read_n + 1])
  /\ IF read_n + 1 = LoopLen
       THEN read_m' = read_m + 1 /\ read_n' = 0
       ELSE read_n' = read_n + 1 /\ UNCHANGED read_m
  /\ UNCHANGED <<comp, m, n, cur_node_idx, max_prob,
                 localVars, evaluation_cache, inflight, result>>

-----------------------------------------------------------------------------
(* comp *)

(***************************************************************************)
(* The vectors have the sizes of the header: entries the host did not set  *)
(* hold anything.  So do those behind the parameters, that the loop over   *)
(* the true nodes takes if there are too few.                              *)
(***************************************************************************)
Filled(vector, size, contents) ==
  {[i \in 1..size |-> IF i <= Len(vector) THEN vector[i] ELSE rest[i]] :
     rest \in [Len(vector) + 1..size -> contents]}

Load ==
  /\ comp = "load"
  /\ local_literal_vector' \in Filled(literal_vector, header.TOTAL_LITERALS, UnsetEntries)
  /\ local_top_vector' \in Filled(top_vector, TopsLen, UnsetEntries)
  /\ local_bool_param_vector' \in
       Filled([i \in 1..Len(bool_param_vector) |-> AsBoolParam(bool_param_vector[i])],
              IF header.TOTAL_BOOL_PARAM <= TopsLen THEN TopsLen + 1
                                                     ELSE header.TOTAL_BOOL_PARAM,
              UnsetParameters)
  /\ comp' = "literals"
  /\ UNCHANGED <<readerVars, dram_fifo, m, loopVars, evaluation_cache,
                 inflight, result>>

(***************************************************************************)
(* The loop over the literal vector: every variable is observed, so the    *)
(* branch for unobserved ones (lines 170-173) is never taken.  Of entries  *)
(* for the same node the last one stays.                                   *)
(***************************************************************************)
Last(S) == CHOOSE k \in S : \A l \in S : l <= k

LiteralAt(i) == {k \in 1..header.TOTAL_LITERALS : AsIndex(local_literal_vector[k].index) = i}

Literals ==
  /\ comp = "literals"
  /\ evaluation_cache' =
       [i \in Nodes |-> IF LiteralAt(i) = {}
                          THEN evaluation_cache[i]
                          ELSE LiteralValue(local_literal_vector[Last(LiteralAt(i))], Query(m))]
  /\ comp' = "top"
  /\ UNCHANGED <<readerVars, dram_fifo, m, loopVars, localVars, inflight, result>>

(***************************************************************************)
(* The loop over the true nodes.  The host stores two parameters for each, *)
(* but the k-th (from 0) takes entries k and k+1 (lines 181 and 184).      *)
(***************************************************************************)
TopAt(i) == {k \in 1..TopsLen : AsIndex(local_top_vector[k].index) = i}

TopValueNegated(k) == IF Query(m)[local_top_vector[k].var] THEN local_bool_param_vector[k + 1]
                                                           ELSE local_bool_param_vector[k]
TopValue(k) == IF Query(m)[local_top_vector[k].var] THEN local_bool_param_vector[k]
                                                    ELSE local_bool_param_vector[k + 1]

Tops ==
  /\ comp = "top"
  /\ evaluation_cache' =
       [i \in Nodes |-> IF TopAt(i) = {} THEN evaluation_cache[i]
                                         ELSE TopValue(Last(TopAt(i)))]
  /\ n' = 0
  /\ cur_node_idx' = 0
  /\ max_prob' = NegInf
  /\ comp' = "decision"
  /\ UNCHANGED <<readerVars, dram_fifo, m, localVars, inflight, result>>

(***************************************************************************)
(* One iteration of the decision loop.  An empty FIFO blocks it.           *)
(***************************************************************************)
Oldest == Head(inflight)
PipelineAdvancesLate == inflight # <<>> => n - Oldest.slot < 2 * Latency
PipelineAdvances     == inflight # <<>> => n - Oldest.slot < Latency

EdgeProb(w) ==
  LogMul(LogMul(evaluation_cache[w.prime], evaluation_cache[w.sub]), w.param)

MaxWithKept(w, keep) == IF DoComp(w) THEN LogMax(max_prob, EdgeProb(w)) ELSE max_prob
NewMaxLast(w) == IF DoComp(w) THEN EdgeProb(w) ELSE max_prob
NewMax(w) == IF DoComp(w) THEN LogMax(max_prob, EdgeProb(w)) ELSE max_prob

Issue ==
  /\ comp = "decision" /\ n < LoopLen
  /\ dram_fifo # <<>>
  /\ PipelineAdvances
  /\ dram_fifo' = Tail(dram_fifo)
  /\ LET w == Head(dram_fifo) IN
       /\ inflight' = IF DoComp(w)
                        THEN Append(inflight, [slot |-> n, node |-> cur_node_idx,
                                               value |-> NewMax(w)])
                        ELSE inflight
       /\ IF IncIdx(w)
            THEN max_prob' = NegInf /\ cur_node_idx' = cur_node_idx + 1
            ELSE max_prob' = NewMax(w) /\ UNCHANGED cur_node_idx
  /\ n' = n + 1
  /\ UNCHANGED <<readerVars, comp, m, localVars, evaluation_cache, result>>

\* The oldest write lands.
Land ==
  /\ inflight # <<>>
  /\ evaluation_cache' = [evaluation_cache EXCEPT ![Oldest.node] = Oldest.value]
  /\ inflight' = Tail(inflight)
  /\ UNCHANGED <<readerVars, dram_fifo, comp, m, loopVars,
                 localVars, result>>

\* The loop is over when its pipeline is empty; then the result is read.
Report ==
  /\ comp = "decision" /\ n = LoopLen
  /\ inflight = <<>>
  /\ result' = Append(result, evaluation_cache[header.PSDD_SIZE - 1])
  /\ m' = m + 1
  /\ comp' = IF m + 1 < NUM_QUERIES THEN "literals" ELSE "done"
  /\ UNCHANGED <<readerVars, dram_fifo, loopVars, localVars,
                 evaluation_cache, inflight>>

CompStep == Load \/ Literals \/ Tops \/ Issue \/ Report

Step == DramRead \/ CompStep \/ Land

Done == comp = "done" /\ read_m = NUM_QUERIES

-----------------------------------------------------------------------------
(***************************************************************************)
(* The FIFO loses, repeats and reorders nothing, also across the boundary  *)
(* between two queries: it holds exactly the words between the position of *)
(* comp and that of dram_read, when the stream is read again and again.    *)
(***************************************************************************)
Consumed == IF comp = "decision" THEN m * LoopLen + n ELSE m * LoopLen
Produced == read_m * LoopLen + read_n

FifoIsInOrder ==
  /\ Len(dram_fifo) = Produced - Consumed
  /\ \A i \in 1..Len(dram_fifo) :
       dram_fifo[i] = dram_port[((Consumed + i - 1) % LoopLen) + 1]

(***************************************************************************)
(* The declaration "dependence inter false" of both caches: no iteration   *)
(* reads an entry for which a write of an earlier one has not landed.      *)
(***************************************************************************)
NextWord == dram_port[n + 1]

NoStaleRead ==
  comp = "decision" /\ n < LoopLen /\ DoComp(NextWord) /\ PipelineAdvances =>
    \A i \in 1..Len(inflight) : inflight[i].node \notin {NextWord.prime, NextWord.sub}

=============================================================================
