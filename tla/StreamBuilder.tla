---------------------------- MODULE StreamBuilder ----------------------------
(***************************************************************************)
(* ReadFPGAPsddFile, the host function that turns a .psdd file into the    *)
(* stream of 64-bit words the accelerator reads, one line of the file or   *)
(* one edge of a decision node at a time.                                  *)
(*                                                                         *)
(* The decision loop of the kernel is a pipeline: the value a word writes  *)
(* is not there to be read for some words after it.  So the host           *)
(* remembers in node_update_cycle at which word each node gets its final   *)
(* value, and puts words that do nothing ("bubbles") before an edge that   *)
(* would come less than DELAY/II words after the last word of an operand.  *)
(***************************************************************************)
EXTENDS PsddFile

CONSTANTS Builds,   \* a file and the header constants the program was compiled with
          DELAY, II

Header == [PSDD_SIZE : Nat \ {0}, MERGED_LOOP_LEN : Nat \ {0}, TOTAL_LITERALS : Nat,
           TOTAL_VARIABLE_INDEXES : Nat, TOTAL_BOOL_PARAM : Nat]

ASSUME BuildsAssumption ==
         \A b \in Builds : b.file \in Seq(Line) /\ b.header \in Header
\* Node numbers below PSDD_SIZE fit their fields; 580817 and 42558 do.
ASSUME IndexAssumption == \A b \in Builds : b.header.PSDD_SIZE <= IndexRange
ASSUME DelayAssumption == DELAY \in Nat /\ II \in Nat \ {0}

Gap == DELAY \div II

VARIABLES
  file, header,        \* the inputs: they never change
  host,                \* "reading", "launched", "exited" or "crashed"
  current_index,       \* number of the line being read, whatever its id
  edge,                \* edges of that line already in the stream
  dram_data,           \* the words so far: new_index = Len(dram_data)
  node_update_cycle,   \* the word at which the node of a line gets its value
  literals, tops, bool_params,   \* the vectors passed beside the stream
  slot_node            \* history: current_index when each word was written

hostVars == <<file, header, host, current_index, edge, dram_data,
              node_update_cycle, literals, tops, bool_params, slot_node>>

new_index == Len(dram_data)
CurrentLine == file[current_index + 1]
NextElement == CurrentLine.elements[edge + 1]

-----------------------------------------------------------------------------
Blank(ctl) == [ctl |-> ctl, prime |-> 0, sub |-> 0, param |-> 0]
Bubble     == Blank(0)
SkipNode   == Blank(1)

EdgeControlAlwaysLast(j, n) == 3
EdgeControlOneBitHigher(j, n) == IF j = n THEN 6 ELSE 4
EdgeControl(j, n) == IF j = n THEN 3 ELSE 2

EdgeWordSwapped(e, ctl) ==
  [ctl |-> ctl, prime |-> AsIndex(e.sub), sub |-> AsIndex(e.prime),
   param |-> AsParameter(e.weight)]
EdgeWord(e, ctl) ==
  [ctl |-> ctl, prime |-> AsIndex(e.prime), sub |-> AsIndex(e.sub),
   param |-> AsParameter(e.weight)]

Put(w) == /\ dram_data' = Append(dram_data, w)
          /\ slot_node' = Append(slot_node, current_index)

-----------------------------------------------------------------------------
Init ==
  /\ \E b \in Builds : file = b.file /\ header = b.header
  /\ host = "reading"
  /\ current_index = 0
  /\ edge = 0
  /\ dram_data = <<>>
  /\ node_update_cycle = [i \in 0..header.PSDD_SIZE - 1 |-> -100]
  /\ literals = <<>>
  /\ tops = <<>>
  /\ bool_params = <<>>
  /\ slot_node = <<>>

(***************************************************************************)
(* The vectors have the sizes the header gives.  An access past the end of *)
(* one is undefined: the model follows no run beyond it.  The exception is *)
(* bool_params, in which the header of the repository leaves one entry for *)
(* the two of a true node: a parameter without room may end the program,   *)
(* or lie unnoticed behind the vector, where nobody reads it.              *)
(***************************************************************************)
HasRoom ==
  /\ new_index < header.MERGED_LOOP_LEN
  /\ current_index < header.PSDD_SIZE
  /\ CurrentLine.kind = "L" => Len(literals) < header.TOTAL_LITERALS
  /\ CurrentLine.kind = "T" => Len(tops) < header.TOTAL_VARIABLE_INDEXES

ParametersHaveRoom == Len(bool_params) + 2 <= header.TOTAL_BOOL_PARAM

UpTo(k, s) == SubSeq(s, 1, IF Len(s) < k THEN Len(s) ELSE k)

Reading(kind) == /\ host = "reading"
                 /\ current_index < Len(file)
                 /\ CurrentLine.kind = kind

ReadLiteral ==
  /\ Reading("L") /\ HasRoom
  /\ literals' = Append(literals, [var   |-> CurrentLine.var,
                                   sign  |-> CurrentLine.sign,
                                   index |-> current_index])
  /\ Put(SkipNode)
  /\ current_index' = current_index + 1
  /\ UNCHANGED <<file, header, host, edge, node_update_cycle, tops, bool_params>>

\* ConvertPsddToStruct stores the two parameters, the one for true first.
ReadTop ==
  /\ Reading("T") /\ HasRoom
  /\ tops' = Append(tops, [var |-> CurrentLine.var, index |-> current_index])
  /\ bool_params' = UpTo(header.TOTAL_BOOL_PARAM,
                         bool_params \o <<AsBoolParam(CurrentLine.pos),
                                          AsBoolParam(CurrentLine.neg)>>)
  /\ Put(SkipNode)
  /\ current_index' = current_index + 1
  /\ UNCHANGED <<file, header, host, edge, node_update_cycle, literals>>

\* The lines read so far: construct_fpga_cache has their nodes by their ids.
Known(e) == {e.prime, e.sub} \subseteq {file[k].id : k \in 1..current_index}

\* node_update_cycle is read at the ids of the operands, but has entries by line.
InTable(e) == e.prime < header.PSDD_SIZE /\ e.sub < header.PSDD_SIZE

TooEarly(n) == new_index - node_update_cycle[n] - Gap < 0

NeedsBubbleOneMore(e) == \E n \in {e.prime, e.sub} : new_index - node_update_cycle[n] - Gap <= 0
NeedsBubble(e) == TooEarly(e.prime) \/ TooEarly(e.sub)

HasNextElement == CurrentLine.elements # <<>> /\ Known(NextElement) /\ InTable(NextElement)

\* Reading a decision line, with an edge still to place.
AtEdge == Reading("D") /\ HasNextElement

InsertBubbleInPlace ==   \* new_index++ forgotten
  /\ AtEdge /\ HasRoom
  /\ NeedsBubble(NextElement)
  /\ UNCHANGED hostVars
InsertBubble ==
  /\ AtEdge /\ HasRoom
  /\ NeedsBubble(NextElement)
  /\ Put(Bubble)
  /\ UNCHANGED <<file, header, host, current_index, edge, node_update_cycle,
                 literals, tops, bool_params>>

RecordedById == CurrentLine.id
RecordedAt == current_index

PlaceEdge ==
  /\ AtEdge /\ HasRoom
  /\ ~NeedsBubble(NextElement)
  /\ Put(EdgeWord(NextElement, EdgeControl(edge + 1, Len(CurrentLine.elements))))
  /\ IF edge + 1 = Len(CurrentLine.elements)
       THEN /\ node_update_cycle' = [node_update_cycle EXCEPT ![RecordedAt] = new_index]
            /\ current_index' = current_index + 1
            /\ edge' = 0
       ELSE /\ edge' = edge + 1
            /\ UNCHANGED <<node_update_cycle, current_index>>
  /\ UNCHANGED <<file, header, host, literals, tops, bool_params>>

(***************************************************************************)
(* What stops the program inside a line: an access past the end of a       *)
(* vector, an operand that no earlier line defines (the assertions), or a  *)
(* decision node without elements: GetConformedFPGAPsddDecisionNode takes  *)
(* its first prime before the check of element_size is reached.            *)
(***************************************************************************)
Crash ==
  /\ host = "reading"
  /\ current_index < Len(file)
  /\ \/ ~HasRoom
     \/ CurrentLine.kind = "T" /\ ~ParametersHaveRoom
     \/ CurrentLine.kind = "D" /\ ~HasNextElement
  /\ host' = "crashed"
  /\ UNCHANGED <<file, header, current_index, edge, dram_data, node_update_cycle,
                 literals, tops, bool_params, slot_node>>

\* The end of the file: the program goes on only if the measured length is
\* the one the kernel was compiled for.
Finish ==
  /\ host = "reading"
  /\ current_index = Len(file)
  /\ host' = IF new_index = header.MERGED_LOOP_LEN THEN "launched" ELSE "exited"
  /\ UNCHANGED <<file, header, current_index, edge, dram_data, node_update_cycle,
                 literals, tops, bool_params, slot_node>>

BuildStep == \/ ReadLiteral \/ ReadTop \/ InsertBubble \/ PlaceEdge
             \/ Crash \/ Finish

Ended == host # "reading" /\ UNCHANGED hostVars

Next == BuildStep \/ Ended

Spec == Init /\ [][Next]_hostVars /\ WF_hostVars(BuildStep)

-----------------------------------------------------------------------------
\* Words, vectors and counters are what the structs and vectors of the code hold.
TypeOK ==
  /\ file \in Seq(Line)
  /\ header \in Header
  /\ host \in {"reading", "launched", "exited", "crashed"}
  /\ current_index \in 0..Len(file)
  /\ edge \in Nat
  /\ dram_data \in Seq(Word)
  /\ slot_node \in Seq(Nat)
  /\ node_update_cycle \in [0..header.PSDD_SIZE - 1 -> Int]
  /\ literals \in Seq([var : Nat, sign : BOOLEAN, index : Nat])
  /\ tops \in Seq([var : Nat, index : Nat])
  /\ bool_params \in Seq(Int) /\ Len(bool_params) <= header.TOTAL_BOOL_PARAM

(***************************************************************************)
(* What the bubbles are for: no edge of the stream follows an edge of one  *)
(* of its operands by fewer than DELAY/II words (lines 728-734).  Operands *)
(* are those of the kernel, for which a number in a word is that of a line *)
(* whatever the ids of the file; a line that has its own number there is   *)
(* possible only where the ids are not the numbers of the lines.           *)
(***************************************************************************)
EdgesAreSpaced ==
  \A s, t \in 1..Len(dram_data) :
    /\ s < t /\ slot_node[s] # slot_node[t]
    /\ DoComp(dram_data[s]) /\ DoComp(dram_data[t])
    /\ slot_node[s] \in {dram_data[t].prime, dram_data[t].sub}
    => t - s >= Gap

(***************************************************************************)
(* And no bubble is wasted: the edge a run of bubbles stands before could  *)
(* not have been placed one word earlier.                                  *)
(***************************************************************************)
BubblesAreNeeded ==
  \A t \in 2..Len(dram_data) :
    DoComp(dram_data[t]) /\ dram_data[t - 1] = Bubble =>
      \E s \in 1..t : /\ DoComp(dram_data[s])
                      /\ slot_node[s] \in {dram_data[t].prime, dram_data[t].sub}
                      /\ t - s = Gap

(***************************************************************************)
(* The kernel does not receive node numbers: it counts words that carry    *)
(* the increment bit.  That count is, at every word, the node the host     *)
(* was writing the word for (lines 674, 696, 741, 744).                    *)
(***************************************************************************)
CountAgrees ==
  \A t \in 1..Len(dram_data) :
    slot_node[t] = Cardinality({s \in 1..t - 1 : IncIdx(dram_data[s])})

(***************************************************************************)
(* A stream that is launched has the length the kernel reads, one          *)
(* increment per line, and every element of every decision line of the     *)
(* file, in the file's order, with nothing between them but bubbles.       *)
(***************************************************************************)
WordsOf(n, t) == {s \in 1..t : slot_node[s] = n /\ DoComp(dram_data[s])}

IsWordOf(w, e) == w.prime = e.prime /\ w.sub = e.sub /\ w.param = AsParameter(e.weight)

\* The j-th word of a node is that of its j-th element.
WordsAreElements ==
  \A t \in 1..Len(dram_data) :
    DoComp(dram_data[t]) =>
      IsWordOf(dram_data[t],
               file[slot_node[t] + 1].elements[Cardinality(WordsOf(slot_node[t], t))])

WordsExpected(n) == IF file[n + 1].kind = "D" THEN Len(file[n + 1].elements) ELSE 0

LaunchedStreamIsFile ==
  host = "launched" =>
    /\ Len(dram_data) = header.MERGED_LOOP_LEN
    /\ Cardinality({s \in 1..Len(dram_data) : IncIdx(dram_data[s])}) = Len(file)
    /\ \A n \in 0..Len(file) - 1 : Cardinality(WordsOf(n, Len(dram_data))) = WordsExpected(n)
    /\ WordsAreElements

(***************************************************************************)
(* The loop that inserts bubbles ends for every edge, so the host function *)
(* always returns, exits or stops at an assertion.                         *)
(***************************************************************************)
HostEnds == <>(host # "reading")

=============================================================================
