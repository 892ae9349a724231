--------------------------- MODULE FpgaRunProofs ---------------------------
(***************************************************************************)
(* Theorems about the host's stream builder, for every set of builds and   *)
(* every DELAY and II, and then about the host and the kernel together,    *)
(* for every network, every number of queries, every FIFO depth and every  *)
(* latency up to Gap: first where words and values are, then, for every    *)
(* network that fits the header the program is compiled with, that the     *)
(* answers are those of the reference evaluation.                          *)
(***************************************************************************)
EXTENDS FpgaRun, FiniteSetTheorems, SequenceTheorems, WellFoundedInduction, TLAPS

\* The distance the host keeps is a number.
LEMMA GapType == Gap \in Int
  BY DelayAssumption DEF Gap

\* What a word of the stream is made of has the right types.
LEMMA WordTypes ==
  /\ Bubble \in Word /\ SkipNode \in Word
  /\ \A e \in Element, j, k \in Nat : EdgeWord(e, EdgeControl(j, k)) \in Word
  /\ ~DoComp(Bubble) /\ ~DoComp(SkipNode)
  /\ ~IncIdx(Bubble) /\ IncIdx(SkipNode)
<1>1. /\ Bubble \in Word /\ SkipNode \in Word
      /\ ~DoComp(Bubble) /\ ~DoComp(SkipNode)
      /\ ~IncIdx(Bubble) /\ IncIdx(SkipNode)
  <2>1. IndexRange \in Nat /\ IndexRange > 0
    BY DEF IndexRange
  <2>2. 0 \in IndexField
    BY <2>1 DEF IndexField
  <2>3. QED
    BY <2>2 DEF Bubble, SkipNode, Blank, Word, DoComp, IncIdx
<1>2. ASSUME NEW e \in Element, NEW j \in Nat, NEW k \in Nat
      PROVE  EdgeWord(e, EdgeControl(j, k)) \in Word
  <2>1. EdgeControl(j, k) \in 0..3
    BY DEF EdgeControl
  <2>2. e.prime \in Nat /\ e.sub \in Nat /\ e.weight \in Int
    BY DEF Element
  <2>3. AsParameter(e.weight) \in Int
    BY <2>2 DEF AsParameter, Signed
  <2>4. IndexRange \in Nat /\ IndexRange > 0
    BY DEF IndexRange
  <2>5. AsIndex(e.prime) \in IndexField /\ AsIndex(e.sub) \in IndexField
    BY <2>2, <2>4 DEF AsIndex, IndexField
  <2>6. QED
    BY <2>1, <2>3, <2>5 DEF EdgeWord, Word
<1>3. QED
  BY <1>1, <1>2

\* A line of kind "D" has a sequence of elements, "L" a variable and a sign,
\* "T" a variable and two integers.
LEMMA LineTypes ==
  ASSUME NEW l \in Line
  PROVE  /\ l.kind = "L" => l.var \in Nat /\ l.sign \in BOOLEAN
         /\ l.kind = "T" => l.var \in Nat /\ l.pos \in Int /\ l.neg \in Int
         /\ l.kind = "D" => l.elements \in Seq(Element)
  BY DEF Line, LiteralLine, TopLine, DecisionLine

-----------------------------------------------------------------------------
(***************************************************************************)
(* The invariant.  Within a decision line, edge is one of its positions.   *)
(***************************************************************************)
EdgeInv ==
  edge # 0 => /\ current_index < Len(file)
              /\ CurrentLine.kind = "D"
              /\ edge < Len(CurrentLine.elements)

\* The history names a node for every word, none later than the current one.
HistoryInv ==
  /\ Len(slot_node) = Len(dram_data)
  /\ \A s \in 1..Len(dram_data) : slot_node[s] \in 0..current_index

\* node_update_cycle bounds the words of every node that is complete.
UpdateInv ==
  \A s \in 1..Len(dram_data) :
    DoComp(dram_data[s]) /\ slot_node[s] < current_index =>
      /\ slot_node[s] < header.PSDD_SIZE
      /\ s - 1 <= node_update_cycle[slot_node[s]]

\* Before its first edge is placed, a line has no word that computes.
FreshInv ==
  edge = 0 => \A s \in 1..Len(dram_data) :
                DoComp(dram_data[s]) => slot_node[s] < current_index

\* Where nodes are numbered by their lines, operands come before their node.
OrderInv ==
  IdsAreLines(file) =>
    \A s \in 1..Len(dram_data) :
      DoComp(dram_data[s]) => /\ dram_data[s].prime < slot_node[s]
                              /\ dram_data[s].sub < slot_node[s]

\* The header is that of a build.
HeaderInv == header.PSDD_SIZE <= IndexRange

IInv == /\ TypeOK /\ HeaderInv /\ EdgeInv /\ HistoryInv /\ UpdateInv /\ FreshInv
        /\ OrderInv /\ EdgesAreSpaced

-----------------------------------------------------------------------------
\* The initial states satisfy the invariant.
LEMMA InitIInv == Init => IInv
<1> SUFFICES ASSUME Init PROVE IInv
  OBVIOUS
<1>1. PICK b \in Builds : file = b.file /\ header = b.header
  BY DEF Init
<1>2. file \in Seq(Line) /\ header \in Header
  BY <1>1, BuildsAssumption
<1>3. TypeOK /\ HeaderInv
  BY <1>1, <1>2, IndexAssumption DEF Init, TypeOK, Header, HeaderInv
<1>4. EdgeInv /\ HistoryInv /\ UpdateInv /\ FreshInv /\ OrderInv /\ EdgesAreSpaced
  BY DEF Init, EdgeInv, HistoryInv, UpdateInv, FreshInv, OrderInv, EdgesAreSpaced
<1>5. QED
  BY <1>3, <1>4 DEF IInv

\* The facts about the line being read that every reading action relies on.
LEMMA ReadingLine ==
  ASSUME IInv, current_index < Len(file)
  PROVE  /\ CurrentLine \in Line
         /\ current_index + 1 \in 1..Len(file)
         /\ CurrentLine.kind = "D" /\ HasNextElement =>
              /\ edge < Len(CurrentLine.elements)
              /\ NextElement \in Element
<1>1. current_index + 1 \in 1..Len(file) /\ CurrentLine \in Line
  BY DEF IInv, TypeOK, CurrentLine
<1>2. ASSUME CurrentLine.kind = "D", HasNextElement
      PROVE  edge < Len(CurrentLine.elements) /\ NextElement \in Element
  <2>1. CurrentLine.elements \in Seq(Element)
    BY <1>1, <1>2, LineTypes
  <2>2. CurrentLine.elements # <<>>
    BY <1>2 DEF HasNextElement
  <2>3. edge \in Nat /\ edge < Len(CurrentLine.elements)
    BY <2>1, <2>2 DEF IInv, EdgeInv, TypeOK
  <2>4. QED
    BY <2>1, <2>3 DEF NextElement
<1>3. QED
  BY <1>1, <1>2

\* Numbers of nodes in node_update_cycle are not cut in a word.
LEMMA IndexFits ==
  ASSUME IInv, NEW i \in Nat, i < header.PSDD_SIZE
  PROVE  AsIndex(i) = i
<1>1. IndexRange \in Nat
  BY DEF IndexRange
<1>2. header.PSDD_SIZE \in Nat /\ header.PSDD_SIZE <= IndexRange
  BY DEF IInv, TypeOK, Header, HeaderInv
<1>3. i < IndexRange
  BY <1>1, <1>2
<1>4. QED
  BY <1>1, <1>3 DEF AsIndex

\* So the word of an edge has the numbers of its element.
LEMMA EdgeWordIsElement ==
  ASSUME IInv, NEW e \in Element, InTable(e), NEW ctl
  PROVE  /\ EdgeWord(e, ctl).prime = e.prime /\ EdgeWord(e, ctl).sub = e.sub
         /\ \A i \in {e.prime, e.sub} : i \in 0..header.PSDD_SIZE - 1
<1>1. /\ e.prime \in Nat /\ e.sub \in Nat /\ header.PSDD_SIZE \in Nat
      /\ e.prime < header.PSDD_SIZE /\ e.sub < header.PSDD_SIZE
  BY DEF Element, InTable, IInv, TypeOK, Header
<1>2. AsIndex(e.prime) = e.prime /\ AsIndex(e.sub) = e.sub
  BY <1>1, IndexFits
<1>3. QED
  BY <1>1, <1>2 DEF EdgeWord

\* What writing a word does to the stream and to its history.
LEMMA PutWord ==
  ASSUME IInv, NEW w \in Word, Put(w)
  PROVE  /\ dram_data' \in Seq(Word) /\ slot_node' \in Seq(Nat)
         /\ Len(dram_data') = Len(dram_data) + 1
         /\ Len(slot_node') = Len(dram_data')
         /\ \A s \in 1..Len(dram_data) : /\ dram_data'[s] = dram_data[s]
                                         /\ slot_node'[s] = slot_node[s]
         /\ dram_data'[Len(dram_data')] = w
         /\ slot_node'[Len(dram_data')] = current_index
<1>1. /\ dram_data \in Seq(Word) /\ slot_node \in Seq(Nat)
      /\ current_index \in Nat
      /\ Len(slot_node) = Len(dram_data)
  BY DEF IInv, TypeOK, HistoryInv
<1>2. /\ dram_data' = Append(dram_data, w)
      /\ slot_node' = Append(slot_node, current_index)
  BY DEF Put
<1>3. QED
  BY <1>1, <1>2

\* A word that does not compute disturbs neither the update cycles nor the
\* spacing: a bubble leaves the node as it is, and the word of a literal or
\* of a true node ends a line that has no other word.
LEMMA PutQuietWord ==
  ASSUME IInv, NEW w \in Word, ~DoComp(w), Put(w),
         \/ current_index' = current_index
         \/ edge = 0 /\ current_index' = current_index + 1,
         UNCHANGED <<file, header, edge, node_update_cycle>>
  PROVE  HistoryInv' /\ UpdateInv' /\ FreshInv' /\ OrderInv' /\ EdgesAreSpaced'
<1>1. /\ Len(dram_data) \in Nat /\ current_index \in Nat
      /\ Len(dram_data') = Len(dram_data) + 1
      /\ Len(slot_node') = Len(dram_data')
      /\ \A s \in 1..Len(dram_data) : /\ dram_data'[s] = dram_data[s]
                                      /\ slot_node'[s] = slot_node[s]
      /\ dram_data'[Len(dram_data')] = w
      /\ slot_node'[Len(dram_data')] = current_index
  BY PutWord DEF IInv, TypeOK
<1>2. \A s \in 1..Len(dram_data) : slot_node[s] \in 0..current_index
  BY DEF IInv, HistoryInv
<1>3. HistoryInv'
  BY <1>1, <1>2 DEF HistoryInv
<1>4. \A s \in 1..Len(dram_data') :
        DoComp(dram_data'[s]) => s \in 1..Len(dram_data)
  BY <1>1
<1>5. \A s \in 1..Len(dram_data) :
        DoComp(dram_data[s]) /\ slot_node[s] < current_index' =>
          slot_node[s] < current_index
  BY <1>1, <1>2 DEF IInv, FreshInv
<1>6. UpdateInv'
  BY <1>1, <1>4, <1>5 DEF IInv, UpdateInv
<1>7. FreshInv'
  BY <1>1, <1>2, <1>4 DEF IInv, FreshInv
<1>8. EdgesAreSpaced'
  BY <1>1, <1>4, GapType DEF IInv, EdgesAreSpaced
<1>9. OrderInv'
  BY <1>1, <1>4 DEF IInv, OrderInv
<1>10. QED
  BY <1>3, <1>6, <1>7, <1>8, <1>9

-----------------------------------------------------------------------------
\* One lemma per action that writes.
LEMMA ReadLiteralKeepsIInv ==
  ASSUME IInv, ReadLiteral PROVE IInv'
<1>1. /\ current_index < Len(file) /\ CurrentLine.kind = "L"
      /\ CurrentLine \in Line /\ edge = 0
  BY ReadingLine DEF IInv, TypeOK, EdgeInv, ReadLiteral, Reading
<1>2. HistoryInv' /\ UpdateInv' /\ FreshInv' /\ OrderInv' /\ EdgesAreSpaced'
  BY <1>1, WordTypes, PutQuietWord DEF ReadLiteral
<1>3. TypeOK'
  <2>1. [var |-> CurrentLine.var, sign |-> CurrentLine.sign, index |-> current_index]
          \in [var : Nat, sign : BOOLEAN, index : Nat]
    BY <1>1, LineTypes DEF IInv, TypeOK
  <2>2. literals' \in Seq([var : Nat, sign : BOOLEAN, index : Nat])
    BY <2>1 DEF IInv, TypeOK, ReadLiteral
  <2>3. dram_data' \in Seq(Word) /\ slot_node' \in Seq(Nat)
    BY WordTypes, PutWord DEF ReadLiteral
  <2>4. current_index' \in 0..Len(file)
    BY <1>1 DEF IInv, TypeOK, ReadLiteral
  <2>5. QED
    BY <2>2, <2>3, <2>4 DEF IInv, TypeOK, ReadLiteral
<1>4. EdgeInv' /\ HeaderInv'
  BY <1>1 DEF IInv, EdgeInv, HeaderInv, ReadLiteral
<1>5. QED
  BY <1>2, <1>3, <1>4 DEF IInv

\* What is kept of a sequence when only k entries have room.
LEMMA UpToTypes ==
  ASSUME NEW k \in Nat, NEW S, NEW s \in Seq(S)
  PROVE  /\ UpTo(k, s) \in Seq(S) /\ Len(UpTo(k, s)) <= k /\ Len(UpTo(k, s)) <= Len(s)
         /\ \A i \in 1..Len(UpTo(k, s)) : i \in 1..Len(s) /\ UpTo(k, s)[i] = s[i]
         /\ Len(UpTo(k, s)) = IF Len(s) < k THEN Len(s) ELSE k
<1>1. Len(s) \in Nat /\ 1 \in Int
  OBVIOUS
<1>2. PICK l \in Nat : l = IF Len(s) < k THEN Len(s) ELSE k
  BY <1>1
<1>3. l <= k /\ l <= Len(s) /\ UpTo(k, s) = SubSeq(s, 1, l)
  BY <1>1, <1>2 DEF UpTo
<1>4. \A i \in 1..l : i \in 1..Len(s) /\ s[i] \in S
  BY <1>1, <1>3
<1>5. /\ SubSeq(s, 1, l) \in Seq(S) /\ Len(SubSeq(s, 1, l)) = l
      /\ \A i \in 1..l : SubSeq(s, 1, l)[i] = s[i]
  BY <1>1, <1>3, <1>4
<1>6. QED
  BY <1>2, <1>3, <1>4, <1>5

LEMMA ReadTopKeepsIInv ==
  ASSUME IInv, ReadTop PROVE IInv'
<1>1. /\ current_index < Len(file) /\ CurrentLine.kind = "T"
      /\ CurrentLine \in Line /\ edge = 0
  BY ReadingLine DEF IInv, TypeOK, EdgeInv, ReadTop, Reading
<1>2. HistoryInv' /\ UpdateInv' /\ FreshInv' /\ OrderInv' /\ EdgesAreSpaced'
  BY <1>1, WordTypes, PutQuietWord DEF ReadTop
<1>3. TypeOK'
  <2>1. /\ [var |-> CurrentLine.var, index |-> current_index] \in [var : Nat, index : Nat]
        /\ CurrentLine.pos \in Int /\ CurrentLine.neg \in Int
    BY <1>1, LineTypes DEF IInv, TypeOK
  <2>2. tops' \in Seq([var : Nat, index : Nat])
    BY <2>1 DEF IInv, TypeOK, ReadTop
  <2>3. <<AsBoolParam(CurrentLine.pos), AsBoolParam(CurrentLine.neg)>> \in Seq(Int)
    BY <2>1 DEF AsBoolParam, Signed
  <2>4. bool_params' \in Seq(Int) /\ Len(bool_params') <= header.TOTAL_BOOL_PARAM
    <3>1. header.TOTAL_BOOL_PARAM \in Nat /\ bool_params \in Seq(Int)
      BY DEF IInv, TypeOK, Header
    <3>2. bool_params' = UpTo(header.TOTAL_BOOL_PARAM,
                              bool_params \o <<AsBoolParam(CurrentLine.pos),
                                               AsBoolParam(CurrentLine.neg)>>)
      BY DEF ReadTop
    <3>3. bool_params \o <<AsBoolParam(CurrentLine.pos), AsBoolParam(CurrentLine.neg)>>
            \in Seq(Int)
      BY <2>3, <3>1
    <3>4. QED
      BY <3>1, <3>2, <3>3, UpToTypes
  <2>5. dram_data' \in Seq(Word) /\ slot_node' \in Seq(Nat)
    BY WordTypes, PutWord DEF ReadTop
  <2>6. current_index' \in 0..Len(file)
    BY <1>1 DEF IInv, TypeOK, ReadTop
  <2>7. QED
    BY <2>2, <2>4, <2>5, <2>6 DEF IInv, TypeOK, ReadTop
<1>4. EdgeInv' /\ HeaderInv'
  BY <1>1 DEF IInv, EdgeInv, HeaderInv, ReadTop
<1>5. QED
  BY <1>2, <1>3, <1>4 DEF IInv

LEMMA InsertBubbleKeepsIInv ==
  ASSUME IInv, InsertBubble PROVE IInv'
<1>1. HistoryInv' /\ UpdateInv' /\ FreshInv' /\ OrderInv' /\ EdgesAreSpaced'
  BY WordTypes, PutQuietWord DEF InsertBubble
<1>2. dram_data' \in Seq(Word) /\ slot_node' \in Seq(Nat)
  BY WordTypes, PutWord DEF InsertBubble
<1>3. TypeOK'
  BY <1>2 DEF IInv, TypeOK, InsertBubble
<1>4. EdgeInv' /\ HeaderInv'
  BY DEF IInv, EdgeInv, HeaderInv, InsertBubble, CurrentLine
<1>5. QED
  BY <1>1, <1>3, <1>4 DEF IInv

\* The operands of an edge that is placed are on earlier lines, if numbers are lines.
LEMMA KnownIsEarlier ==
  ASSUME IInv, current_index < Len(file), IdsAreLines(file), NEW e \in Element, Known(e)
  PROVE  e.prime < current_index /\ e.sub < current_index
<1>1. current_index \in Nat /\ Len(file) \in Nat
  BY DEF IInv, TypeOK
<1>2. \A k \in 1..current_index : file[k].id < current_index
  BY <1>1 DEF IdsAreLines
<1>3. QED
  BY <1>2 DEF Known

\* An edge is placed when the last words of both operands are Gap words back.
LEMMA PlaceEdgeKeepsIInv ==
  ASSUME IInv, PlaceEdge PROVE IInv'
<1> DEFINE w == EdgeWord(NextElement, EdgeControl(edge + 1, Len(CurrentLine.elements)))
           k == Len(CurrentLine.elements)
<1>1. /\ CurrentLine \in Line /\ CurrentLine.kind = "D"
      /\ current_index < Len(file) /\ current_index < header.PSDD_SIZE
      /\ edge < k /\ NextElement \in Element
      /\ InTable(NextElement) /\ ~NeedsBubble(NextElement)
  BY ReadingLine DEF PlaceEdge, AtEdge, Reading, HasRoom, HasNextElement
<1>2. /\ CurrentLine.elements \in Seq(Element)
      /\ k \in Nat /\ edge \in Nat /\ current_index \in Nat
      /\ Len(dram_data) \in Nat /\ header.PSDD_SIZE \in Nat
      /\ node_update_cycle \in [0..header.PSDD_SIZE - 1 -> Int]
  BY <1>1, LineTypes DEF IInv, TypeOK, Header
<1>3. w \in Word /\ Put(w)
  BY <1>1, <1>2, WordTypes DEF PlaceEdge
<1>31. /\ w.prime = NextElement.prime /\ w.sub = NextElement.sub
       /\ \A i \in {w.prime, w.sub} : i \in 0..header.PSDD_SIZE - 1
  BY <1>1, EdgeWordIsElement
<1> HIDE DEF w, k
<1>4. /\ dram_data' \in Seq(Word) /\ slot_node' \in Seq(Nat)
      /\ Len(dram_data') = Len(dram_data) + 1
      /\ Len(slot_node') = Len(dram_data')
      /\ \A s \in 1..Len(dram_data) : /\ dram_data'[s] = dram_data[s]
                                      /\ slot_node'[s] = slot_node[s]
      /\ dram_data'[Len(dram_data')] = w
      /\ slot_node'[Len(dram_data')] = current_index
  BY <1>3, PutWord
<1>5. \A s \in 1..Len(dram_data) : slot_node[s] \in 0..current_index
  BY DEF IInv, HistoryInv
<1>51. /\ \A s \in 1..Len(dram_data') : slot_node'[s] \in 0..current_index
       /\ \A s \in 1..Len(dram_data') : slot_node'[s] # current_index => s \in 1..Len(dram_data)
  <2>1. PICK k1 \in Nat : k1 = Len(dram_data)
    BY <1>2
  <2>2. Len(dram_data') = k1 + 1 /\ slot_node'[k1 + 1] = current_index
    BY <1>4, <2>1
  <2>3. \A s \in 1..k1 : slot_node'[s] \in 0..current_index
    BY <1>4, <1>5, <2>1
  <2>4. \A s \in 1..k1 + 1 : s \in 1..k1 \/ s = k1 + 1
    BY <2>1
  <2>5. current_index \in 0..current_index
    BY <1>2
  <2>6. QED
    BY <2>1, <2>2, <2>3, <2>4, <2>5
<1>6. EdgesAreSpaced'
  <2>2. \A i \in {w.prime, w.sub} :
          i \in 0..header.PSDD_SIZE - 1
          /\ Len(dram_data) - node_update_cycle[i] >= Gap
    BY <1>1, <1>2, <1>31, GapType DEF NeedsBubble, TooEarly, new_index
  <2>3. \A s \in 1..Len(dram_data) :
          DoComp(dram_data[s]) /\ slot_node[s] \in {w.prime, w.sub}
          /\ slot_node[s] # current_index =>
            Len(dram_data) + 1 - s >= Gap
    <3> SUFFICES ASSUME NEW s \in 1..Len(dram_data), DoComp(dram_data[s]),
                        slot_node[s] \in {w.prime, w.sub}, slot_node[s] # current_index
                 PROVE  Len(dram_data) + 1 - s >= Gap
      OBVIOUS
    <3>1. slot_node[s] < current_index
      BY <1>2, <1>5
    <3>2. s - 1 <= node_update_cycle[slot_node[s]]
      BY <3>1 DEF IInv, UpdateInv
    <3>3. node_update_cycle[slot_node[s]] \in Int
      BY <1>2, <2>2
    <3>4. PICK last \in Int : last = node_update_cycle[slot_node[s]]
      BY <3>3
    <3>5. Len(dram_data) - last >= Gap /\ s - 1 <= last
      BY <2>2, <3>2, <3>4
    <3>6. PICK length, gap : length = Len(dram_data) /\ gap = Gap
      OBVIOUS
    <3>7. length \in Nat /\ s \in 1..length
      BY <1>2, <3>6
    <3>8. gap \in Int
      BY <3>6, GapType
    <3>9. length - last >= gap
      BY <3>5, <3>6
    <3>10. length + 1 - s >= gap
      BY <3>5, <3>7, <3>8, <3>9
    <3>11. QED
      BY <3>6, <3>10
  <2>4. SUFFICES ASSUME NEW s \in 1..Len(dram_data'), NEW t \in 1..Len(dram_data'),
                        s < t, slot_node'[s] # slot_node'[t],
                        DoComp(dram_data'[s]), DoComp(dram_data'[t]),
                        slot_node'[s] \in {dram_data'[t].prime, dram_data'[t].sub}
                 PROVE  t - s >= Gap
    BY DEF EdgesAreSpaced
  <2>5. s \in 1..Len(dram_data) /\ dram_data'[s] = dram_data[s]
        /\ slot_node'[s] = slot_node[s]
    BY <1>2, <1>4, <2>4
  <2>6. CASE t = Len(dram_data')
    BY <1>2, <1>4, <2>3, <2>4, <2>5, <2>6
  <2>7. CASE t # Len(dram_data')
    <3>1. t \in 1..Len(dram_data) /\ dram_data'[t] = dram_data[t]
          /\ slot_node'[t] = slot_node[t]
      BY <1>2, <1>4, <2>7
    <3>2. QED
      BY <2>4, <2>5, <3>1 DEF IInv, EdgesAreSpaced
  <2>8. QED
    BY <2>6, <2>7
<1>61. OrderInv'
  <2>1. file' = file /\ IdsAreLines(file) => w.prime < current_index /\ w.sub < current_index
    BY <1>1, <1>31, KnownIsEarlier DEF PlaceEdge, AtEdge, HasNextElement
  <2>2. \A s \in 1..Len(dram_data') : s \in 1..Len(dram_data) \/ s = Len(dram_data')
    BY <1>2, <1>4
  <2>3. QED
    BY <1>4, <2>1, <2>2 DEF IInv, OrderInv, PlaceEdge
<1>7. CASE edge + 1 = k
  <2>1. /\ node_update_cycle' = [node_update_cycle EXCEPT ![current_index] = Len(dram_data)]
        /\ current_index' = current_index + 1
        /\ edge' = 0
        /\ UNCHANGED <<file, header, host, literals, tops, bool_params>>
    BY <1>7 DEF PlaceEdge, RecordedAt, new_index, k
  <2>2. TypeOK' /\ HeaderInv'
    BY <1>1, <1>2, <1>4, <2>1 DEF IInv, TypeOK, HeaderInv
  <2>3. EdgeInv' /\ HistoryInv' /\ FreshInv'
    <3>1. /\ \A s \in 1..Len(dram_data') : slot_node'[s] \in 0..current_index
          /\ Len(slot_node') = Len(dram_data')
      BY <1>4, <1>51
    <3>2. HistoryInv' /\ FreshInv'
      BY <1>2, <2>1, <3>1 DEF HistoryInv, FreshInv
    <3>3. EdgeInv'
      BY <2>1 DEF EdgeInv
    <3>4. QED
      BY <3>2, <3>3
  <2>4. UpdateInv'
    <3> SUFFICES ASSUME NEW s \in 1..Len(dram_data'), DoComp(dram_data'[s])
                 PROVE  /\ slot_node'[s] < header.PSDD_SIZE
                        /\ s - 1 <= node_update_cycle'[slot_node'[s]]
      BY <2>1 DEF UpdateInv
    <3>1. CASE slot_node'[s] = current_index
      BY <1>1, <1>2, <1>4, <2>1, <3>1
    <3>2. CASE slot_node'[s] # current_index
      <4>1. s \in 1..Len(dram_data) /\ slot_node[s] < current_index
        BY <1>4, <1>5, <1>51, <3>2
      <4>2. slot_node[s] < header.PSDD_SIZE /\ s - 1 <= node_update_cycle[slot_node[s]]
        BY <1>4, <4>1 DEF IInv, UpdateInv
      <4>3. QED
        BY <1>2, <1>4, <1>5, <2>1, <4>1, <4>2
    <3>3. QED
      BY <3>1, <3>2
  <2>5. QED
    BY <1>6, <1>61, <2>2, <2>3, <2>4 DEF IInv
<1>8. CASE edge + 1 # k
  <2>1. /\ edge' = edge + 1
        /\ UNCHANGED <<node_update_cycle, current_index>>
        /\ UNCHANGED <<file, header, host, literals, tops, bool_params>>
    BY <1>8 DEF PlaceEdge, k
  <2>2. TypeOK' /\ HeaderInv'
    BY <1>2, <1>4, <2>1 DEF IInv, TypeOK, HeaderInv
  <2>3. EdgeInv'
    BY <1>1, <1>2, <1>8, <2>1 DEF EdgeInv, CurrentLine, k
  <2>4. HistoryInv' /\ FreshInv'
    <3>1. /\ \A s \in 1..Len(dram_data') : slot_node'[s] \in 0..current_index
          /\ Len(slot_node') = Len(dram_data')
      BY <1>4, <1>51
    <3>2. QED
      BY <1>2, <2>1, <3>1 DEF HistoryInv, FreshInv
  <2>5. UpdateInv'
    <3> SUFFICES ASSUME NEW s \in 1..Len(dram_data'), DoComp(dram_data'[s]),
                        slot_node'[s] < current_index
                 PROVE  /\ slot_node'[s] < header.PSDD_SIZE
                        /\ s - 1 <= node_update_cycle[slot_node'[s]]
      BY <2>1 DEF UpdateInv
    <3>1. s \in 1..Len(dram_data) /\ dram_data'[s] = dram_data[s]
          /\ slot_node'[s] = slot_node[s]
      BY <1>2, <1>4
    <3>2. QED
      BY <3>1 DEF IInv, UpdateInv
  <2>6. QED
    BY <1>6, <1>61, <2>2, <2>3, <2>4, <2>5 DEF IInv
<1>9. QED
  BY <1>7, <1>8

\* The other steps only move host.
LEMMA StepKeepsIInv == IInv /\ [Next]_hostVars => IInv'
<1> SUFFICES ASSUME IInv, [Next]_hostVars PROVE IInv'
  OBVIOUS
<1>1. CASE ReadLiteral
  BY <1>1, ReadLiteralKeepsIInv
<1>2. CASE ReadTop
  BY <1>2, ReadTopKeepsIInv
<1>3. CASE InsertBubble
  BY <1>3, InsertBubbleKeepsIInv
<1>4. CASE PlaceEdge
  BY <1>4, PlaceEdgeKeepsIInv
<1>5. CASE Crash \/ Finish
  BY <1>5 DEF Crash, Finish, IInv, TypeOK, HeaderInv, EdgeInv, HistoryInv, UpdateInv,
              FreshInv, OrderInv, EdgesAreSpaced, CurrentLine
<1>6. CASE UNCHANGED hostVars
  BY <1>6 DEF hostVars, IInv, TypeOK, HeaderInv, EdgeInv, HistoryInv, UpdateInv,
              FreshInv, OrderInv, EdgesAreSpaced, CurrentLine
<1>7. QED
  BY <1>1, <1>2, <1>3, <1>4, <1>5, <1>6 DEF Next, BuildStep, Ended

\* IInv holds in every state of every run of the host's stream builder.
THEOREM HostInvariant == Spec => []IInv
  BY InitIInv, StepKeepsIInv, PTL DEF Spec

(***************************************************************************)
(* Every state of the builder is well typed: in particular no write leaves *)
(* a vector, and every word fits its fields.                               *)
(***************************************************************************)
THEOREM TypeCorrect == Spec => []TypeOK
  BY HostInvariant, PTL DEF IInv

(***************************************************************************)
(* For every file, every header and every DELAY and II, no edge of the     *)
(* stream comes sooner than Gap words after an edge of one of its operands *)
(* (lines 728-734).                                                        *)
(***************************************************************************)
THEOREM Spaced == Spec => []EdgesAreSpaced
  BY HostInvariant, PTL DEF IInv

-----------------------------------------------------------------------------
(***************************************************************************)
(* The count of increments.  It is not inductive alone: the count over the *)
(* whole stream so far has to be the line being read.                      *)
(***************************************************************************)
Increments(t) == {s \in 1..t : IncIdx(dram_data[s])}

CountInv == /\ Cardinality(Increments(Len(dram_data))) = current_index
            /\ CountAgrees

\* The number of increments grows by one exactly for a word that has the bit.
LEMMA CountWord ==
  ASSUME IInv, CountInv, NEW w \in Word, Put(w),
         IncIdx(w) => current_index' = current_index + 1,
         ~IncIdx(w) => current_index' = current_index
  PROVE  CountInv'
<1> DEFINE k == Len(dram_data)
           After(t) == {s \in 1..t : IncIdx(dram_data'[s])}
<1>1. k \in Nat /\ current_index \in Nat
  BY DEF IInv, TypeOK
<1>2. /\ Len(dram_data') = k + 1
      /\ \A s \in 1..k : /\ dram_data'[s] = dram_data[s]
                         /\ slot_node'[s] = slot_node[s]
      /\ dram_data'[k + 1] = w
      /\ slot_node'[k + 1] = current_index
  BY PutWord
<1> HIDE DEF k
<1>3. \A t \in 0..k : After(t) = Increments(t)
  BY <1>1, <1>2 DEF Increments
<1>4. IsFiniteSet(Increments(k)) /\ k + 1 \notin Increments(k)
  <2>1. IsFiniteSet(1..k) /\ Increments(k) \subseteq 1..k
    BY <1>1, FS_Interval DEF Increments
  <2>2. k + 1 \notin 1..k
    BY <1>1
  <2>3. QED
    BY <2>1, <2>2, FS_Subset
<1>5. After(k + 1) = IF IncIdx(w) THEN Increments(k) \cup {k + 1} ELSE Increments(k)
  <2>1. \A s : s \in 1..k + 1 <=> s \in 1..k \/ s = k + 1
    BY <1>1
  <2>2. \A s \in 1..k : IncIdx(dram_data'[s]) <=> IncIdx(dram_data[s])
    BY <1>2
  <2>3. IncIdx(dram_data'[k + 1]) <=> IncIdx(w)
    BY <1>2
  <2>4. \A s : s \in After(k + 1) <=> s \in Increments(k) \/ (s = k + 1 /\ IncIdx(w))
    BY <2>1, <2>2, <2>3 DEF Increments
  <2> HIDE DEF After
  <2>5. QED
    BY <2>4
<1>6. Cardinality(Increments(k)) = current_index
  BY DEF CountInv, k
<1>7. Cardinality(Increments(Len(dram_data)))' = current_index'
  <2>1. Cardinality(After(k + 1)) = current_index'
    <3> HIDE DEF After
    <3>1. QED
      BY <1>1, <1>4, <1>5, <1>6, FS_AddElement
  <2>2. QED
    BY <1>2, <2>1 DEF Increments
<1>8. CountAgrees'
  <2> SUFFICES ASSUME NEW t \in 1..k + 1
               PROVE  slot_node'[t] = Cardinality(After(t - 1))
    BY <1>2 DEF CountAgrees
  <2>1. After(t - 1) = Increments(t - 1)
    BY <1>1, <1>3
  <2>2. CASE t = k + 1
    <3> HIDE DEF After
    <3>1. t - 1 = k
      BY <1>1, <2>2
    <3>2. QED
      BY <1>2, <1>6, <2>1, <2>2, <3>1
  <2>3. CASE t # k + 1
    <3>1. t \in 1..k
      BY <1>1, <2>3
    <3>2. slot_node[t] = Cardinality(Increments(t - 1))
      BY <3>1 DEF CountInv, CountAgrees, Increments, k
    <3>3. QED
      BY <1>2, <2>1, <3>1, <3>2
  <2>4. QED
    BY <2>2, <2>3
<1>9. QED
  BY <1>7, <1>8 DEF CountInv

\* In the initial states nothing has been counted.
LEMMA InitCount == Init => CountInv
<1> SUFFICES ASSUME Init PROVE CountInv
  OBVIOUS
<1>1. Len(dram_data) = 0 /\ current_index = 0 /\ 1..0 = {}
  BY DEF Init
<1>2. Increments(0) = {}
  BY <1>1 DEF Increments
<1>3. QED
  BY <1>1, <1>2, FS_EmptySet DEF CountInv, CountAgrees

\* Every action counts as many increments as it goes on by lines.
LEMMA StepKeepsCount == IInv /\ CountInv /\ [Next]_hostVars => CountInv'
<1> SUFFICES ASSUME IInv, CountInv, [Next]_hostVars PROVE CountInv'
  OBVIOUS
<1>1. CASE ReadLiteral \/ ReadTop
  BY <1>1, WordTypes, CountWord DEF ReadLiteral, ReadTop
<1>2. CASE InsertBubble
  BY <1>2, WordTypes, CountWord DEF InsertBubble
<1>3. CASE PlaceEdge
  <2> DEFINE k == Len(CurrentLine.elements)
             w == EdgeWord(NextElement, EdgeControl(edge + 1, k))
  <2>1. /\ CurrentLine \in Line /\ CurrentLine.kind = "D"
        /\ NextElement \in Element
    BY <1>3, ReadingLine DEF PlaceEdge, AtEdge, Reading
  <2>2. k \in Nat /\ edge \in Nat
    BY <2>1, LineTypes DEF IInv, TypeOK
  <2>3. w \in Word /\ Put(w)
    BY <1>3, <2>1, <2>2, WordTypes DEF PlaceEdge
  <2>4. IncIdx(w) <=> edge + 1 = k
    BY <2>2 DEF IncIdx, EdgeWord, EdgeControl
  <2>5. current_index' = IF edge + 1 = k THEN current_index + 1 ELSE current_index
    BY <1>3 DEF PlaceEdge
  <2> HIDE DEF w, k
  <2>6. QED
    BY <2>3, <2>4, <2>5, CountWord
<1>4. CASE Crash \/ Finish
  BY <1>4 DEF Crash, Finish, CountInv, CountAgrees, Increments
<1>5. CASE UNCHANGED hostVars
  BY <1>5 DEF hostVars, CountInv, CountAgrees, Increments
<1>6. QED
  BY <1>1, <1>2, <1>3, <1>4, <1>5 DEF Next, BuildStep, Ended

(***************************************************************************)
(* Counting increments gives the kernel the number of the node the host    *)
(* wrote each word for, whatever the file (lines 674, 696, 741, 744).      *)
(***************************************************************************)
THEOREM CountCorrect == Spec => []CountAgrees
<1>1. CountInv => CountAgrees
  BY DEF CountInv
<1>2. QED
  BY <1>1, InitCount, HostInvariant, StepKeepsCount, PTL DEF Spec

-----------------------------------------------------------------------------
(***************************************************************************)
(* Bubbles.  A distance is small only because of a word that is in the     *)
(* stream, so the entries of node_update_cycle have to be such words; and  *)
(* after a bubble an operand of the next edge is at most Gap words back.   *)
(***************************************************************************)
HasWord(i) ==
  /\ node_update_cycle[i] + 1 \in 1..Len(dram_data)
  /\ DoComp(dram_data[node_update_cycle[i] + 1])
  /\ slot_node[node_update_cycle[i] + 1] = i

UpdatedInv ==
  \A i \in 0..header.PSDD_SIZE - 1 : node_update_cycle[i] = -100 \/ HasWord(i)

PendingInv ==
  host = "reading" /\ Len(dram_data) > 0 /\ dram_data[Len(dram_data)] = Bubble =>
    \E i \in {NextElement.prime, NextElement.sub} :
      Len(dram_data) - node_update_cycle[i] - Gap <= 0

NInv == UpdatedInv /\ PendingInv /\ BubblesAreNeeded

\* There are no words at first.
LEMMA InitNInv == Init => NInv
<1> SUFFICES ASSUME Init PROVE NInv
  OBVIOUS
<1>1. UpdatedInv
  BY DEF Init, UpdatedInv
<1>2. Len(dram_data) = 0
  BY DEF Init
<1>3. QED
  BY <1>1, <1>2 DEF NInv, PendingInv, BubblesAreNeeded

\* The words of the stream stay where they are.
LEMMA WordStays ==
  ASSUME IInv, NEW w \in Word, Put(w),
         NEW i \in 0..header.PSDD_SIZE - 1, HasWord(i),
         node_update_cycle'[i] = node_update_cycle[i]
  PROVE  HasWord(i)'
<1>1. PICK c \in Int : c = node_update_cycle[i]
  BY DEF IInv, TypeOK
<1>2. /\ c + 1 \in 1..Len(dram_data) /\ Len(dram_data) \in Nat
      /\ DoComp(dram_data[c + 1]) /\ slot_node[c + 1] = i
  BY <1>1 DEF HasWord, IInv, TypeOK
<1>3. /\ Len(dram_data') = Len(dram_data) + 1
      /\ dram_data'[c + 1] = dram_data[c + 1] /\ slot_node'[c + 1] = slot_node[c + 1]
  BY <1>2, PutWord
<1>4. c + 1 \in 1..Len(dram_data')
  BY <1>2, <1>3
<1>5. QED
  BY <1>1, <1>2, <1>3, <1>4 DEF HasWord

\* A bubble that had an edge behind it still has.
LEMMA NeedStays ==
  ASSUME IInv, BubblesAreNeeded, NEW w \in Word, Put(w),
         NEW t \in 2..Len(dram_data), DoComp(dram_data'[t]), dram_data'[t - 1] = Bubble
  PROVE  \E s \in 1..t : /\ DoComp(dram_data'[s])
                         /\ slot_node'[s] \in {dram_data'[t].prime, dram_data'[t].sub}
                         /\ t - s = Gap
<1>1. Len(dram_data) \in Nat
  BY DEF IInv, TypeOK
<1>2. \A s \in 1..t : s \in 1..Len(dram_data)
  BY <1>1
<1>3. t \in 1..t /\ t - 1 \in 1..t
  BY <1>1
<1>4. \A s \in 1..t : dram_data'[s] = dram_data[s] /\ slot_node'[s] = slot_node[s]
  BY <1>2, PutWord
<1>5. DoComp(dram_data[t]) /\ dram_data[t - 1] = Bubble
  BY <1>3, <1>4
<1>6. QED
  BY <1>3, <1>4, <1>5 DEF BubblesAreNeeded

\* A word that does not compute needs no bubble.
LEMMA PutQuietWordNInv ==
  ASSUME IInv, NInv, NEW w \in Word, ~DoComp(w), Put(w),
         UNCHANGED <<header, node_update_cycle>>
  PROVE  UpdatedInv' /\ BubblesAreNeeded'
<1>1. UpdatedInv'
  BY WordStays DEF NInv, UpdatedInv
<1>2. /\ Len(dram_data) \in Nat /\ Len(dram_data') = Len(dram_data) + 1
      /\ dram_data'[Len(dram_data')] = w
  BY PutWord DEF IInv, TypeOK
<1>3. \A t \in 2..Len(dram_data') : DoComp(dram_data'[t]) => t \in 2..Len(dram_data)
  BY <1>2
<1>4. BubblesAreNeeded'
  BY <1>3, NeedStays DEF NInv, BubblesAreNeeded
<1>5. QED
  BY <1>1, <1>4

\* A bubble is inserted when an operand is nearer than Gap words: with it
\* the operand is at most so far.
LEMMA InsertBubbleKeepsNInv ==
  ASSUME IInv, NInv, InsertBubble PROVE NInv'
<1>1. Bubble \in Word /\ ~DoComp(Bubble) /\ Put(Bubble)
  BY WordTypes DEF InsertBubble
<1>2. UpdatedInv' /\ BubblesAreNeeded'
  BY <1>1, PutQuietWordNInv DEF InsertBubble
<1>3. NextElement \in Element /\ InTable(NextElement)
  BY ReadingLine DEF InsertBubble, AtEdge, Reading, HasRoom, HasNextElement
<1>4. PICK i \in {NextElement.prime, NextElement.sub} : TooEarly(i)
  BY DEF InsertBubble, NeedsBubble
<1>5. i \in 0..header.PSDD_SIZE - 1
  BY <1>3, EdgeWordIsElement
<1>6. PICK c, gap, length \in Int :
        c = node_update_cycle[i] /\ gap = Gap /\ length = Len(dram_data)
  BY <1>5, GapType DEF IInv, TypeOK
<1>7. length - c - gap < 0
  BY <1>4, <1>6 DEF TooEarly, new_index
<1>8. length + 1 - c - gap <= 0
  BY <1>6, <1>7
<1>9. Len(dram_data') = length + 1
  BY <1>1, <1>6, PutWord
<1>10. UNCHANGED <<file, current_index, edge, node_update_cycle>>
  BY DEF InsertBubble
<1>11. NextElement' = NextElement
  BY <1>10 DEF NextElement, CurrentLine
<1>12. Len(dram_data') - node_update_cycle'[i] - Gap <= 0
  BY <1>6, <1>8, <1>9, <1>10
<1>13. PendingInv'
  BY <1>11, <1>12 DEF PendingInv
<1>14. QED
  BY <1>2, <1>13 DEF NInv

\* When the edge follows, an operand is exactly Gap words back.
LEMMA PlaceEdgeKeepsNInv ==
  ASSUME Gap <= 100, IInv, NInv, PlaceEdge PROVE NInv'
<1> DEFINE k == Len(CurrentLine.elements)
           w == EdgeWord(NextElement, EdgeControl(edge + 1, k))
<1>1. /\ CurrentLine \in Line /\ CurrentLine.kind = "D" /\ host = "reading"
      /\ current_index < header.PSDD_SIZE /\ current_index \in Nat
      /\ NextElement \in Element /\ InTable(NextElement) /\ ~NeedsBubble(NextElement)
  BY ReadingLine DEF PlaceEdge, AtEdge, Reading, HasRoom, HasNextElement, IInv, TypeOK
<1>2. k \in Nat /\ edge \in Nat /\ header.PSDD_SIZE \in Nat
  BY <1>1, LineTypes DEF IInv, TypeOK, Header
<1>3. w \in Word /\ Put(w)
  BY <1>1, <1>2, WordTypes DEF PlaceEdge
<1>4. /\ DoComp(w) /\ w # Bubble
      /\ w.prime = NextElement.prime /\ w.sub = NextElement.sub
  <2>1. w.ctl \in {2, 3} /\ Bubble.ctl = 0
    BY DEF EdgeWord, EdgeControl, Bubble, Blank
  <2>2. DoComp(w) /\ w # Bubble
    BY <2>1 DEF DoComp
  <2>3. w.prime = NextElement.prime /\ w.sub = NextElement.sub
    BY <1>1, EdgeWordIsElement
  <2>4. QED
    BY <2>2, <2>3
<1>5. /\ header' = header
      /\ \/ node_update_cycle' = [node_update_cycle EXCEPT ![current_index] = Len(dram_data)]
         \/ node_update_cycle' = node_update_cycle
  BY DEF PlaceEdge, RecordedAt, new_index
<1> HIDE DEF w, k
<1>6. /\ Len(dram_data) \in Nat
      /\ Len(dram_data') = Len(dram_data) + 1
      /\ dram_data'[Len(dram_data) + 1] = w
      /\ slot_node'[Len(dram_data) + 1] = current_index
      /\ \A s \in 1..Len(dram_data) : /\ dram_data'[s] = dram_data[s]
                                      /\ slot_node'[s] = slot_node[s]
  BY <1>3, PutWord DEF IInv, TypeOK
<1>7. UpdatedInv'
  <2> SUFFICES ASSUME NEW i \in 0..header.PSDD_SIZE - 1, node_update_cycle'[i] # -100
               PROVE  HasWord(i)'
    BY <1>5 DEF UpdatedInv
  <2>1. CASE node_update_cycle'[i] = node_update_cycle[i]
    BY <1>3, <2>1, WordStays DEF NInv, UpdatedInv
  <2>2. CASE i = current_index /\ node_update_cycle'[i] = Len(dram_data)
    BY <1>4, <1>6, <2>2 DEF HasWord
  <2>3. QED
    BY <1>5, <2>1, <2>2 DEF IInv, TypeOK
<1>8. PendingInv'
  BY <1>4, <1>6 DEF PendingInv
<1>9. ASSUME Len(dram_data) > 0, dram_data[Len(dram_data)] = Bubble
      PROVE  \E s \in 1..Len(dram_data) :
               /\ DoComp(dram_data[s])
               /\ slot_node[s] \in {NextElement.prime, NextElement.sub}
               /\ Len(dram_data) + 1 - s = Gap
  <2>1. PICK i \in {NextElement.prime, NextElement.sub} :
               Len(dram_data) - node_update_cycle[i] - Gap <= 0
    BY <1>1, <1>9 DEF NInv, PendingInv
  <2>2. i \in 0..header.PSDD_SIZE - 1 /\ ~TooEarly(i)
    BY <1>1, EdgeWordIsElement DEF NeedsBubble
  <2>3. PICK c, gap, length \in Int :
          c = node_update_cycle[i] /\ gap = Gap /\ length = Len(dram_data)
    BY <1>6, <2>2, GapType DEF IInv, TypeOK
  <2>4. length - c - gap = 0 /\ length > 0 /\ gap <= 100
    BY <1>9, <2>1, <2>2, <2>3 DEF TooEarly, new_index
  <2>5. c # -100
    BY <2>3, <2>4
  <2>6. HasWord(i)
    BY <2>2, <2>3, <2>5 DEF NInv, UpdatedInv
  <2>7. c + 1 \in 1..length /\ length + 1 - (c + 1) = gap
    BY <2>3, <2>4, <2>6 DEF HasWord
  <2>8. QED
    BY <2>3, <2>6, <2>7 DEF HasWord
<1>10. BubblesAreNeeded'
  <2> SUFFICES ASSUME NEW t \in 2..Len(dram_data'), DoComp(dram_data'[t]),
                      dram_data'[t - 1] = Bubble
               PROVE  \E s \in 1..t :
                        /\ DoComp(dram_data'[s])
                        /\ slot_node'[s] \in {dram_data'[t].prime, dram_data'[t].sub}
                        /\ t - s = Gap
    BY DEF BubblesAreNeeded
  <2>1. CASE t \in 2..Len(dram_data)
    BY <1>3, <2>1, NeedStays DEF NInv
  <2>2. CASE t = Len(dram_data) + 1
    <3>1. Len(dram_data) > 0 /\ Len(dram_data) \in 1..Len(dram_data) /\ t - 1 = Len(dram_data)
      BY <1>6, <2>2
    <3>2. dram_data[Len(dram_data)] = Bubble
      BY <1>6, <3>1
    <3>3. PICK s \in 1..Len(dram_data) :
                 /\ DoComp(dram_data[s])
                 /\ slot_node[s] \in {NextElement.prime, NextElement.sub}
                 /\ Len(dram_data) + 1 - s = Gap
      BY <1>9, <3>1, <3>2
    <3>4. s \in 1..t /\ dram_data'[t] = w
      BY <1>6, <2>2
    <3>5. dram_data'[s] = dram_data[s] /\ slot_node'[s] = slot_node[s]
      BY <1>6
    <3>6. QED
      BY <1>4, <2>2, <3>3, <3>4, <3>5
  <2>3. QED
    BY <1>6, <2>1, <2>2
<1>11. QED
  BY <1>7, <1>8, <1>10 DEF NInv

\* The other words are no bubbles, the other steps write none.
LEMMA StepKeepsNInv == Gap <= 100 /\ IInv /\ NInv /\ [Next]_hostVars => NInv'
<1> SUFFICES ASSUME Gap <= 100, IInv, NInv, [Next]_hostVars PROVE NInv'
  OBVIOUS
<1>1. CASE ReadLiteral \/ ReadTop
  <2>1. SkipNode \in Word /\ ~DoComp(SkipNode) /\ Put(SkipNode)
        /\ UNCHANGED <<header, node_update_cycle>>
    BY <1>1, WordTypes DEF ReadLiteral, ReadTop
  <2>2. SkipNode # Bubble
    BY WordTypes
  <2>3. dram_data'[Len(dram_data')] = SkipNode
    BY <2>1, PutWord
  <2>4. PendingInv'
    BY <2>2, <2>3 DEF PendingInv
  <2>5. QED
    BY <2>1, <2>4, PutQuietWordNInv DEF NInv
<1>2. CASE InsertBubble
  BY <1>2, InsertBubbleKeepsNInv
<1>3. CASE PlaceEdge
  BY <1>3, PlaceEdgeKeepsNInv
<1>4. CASE Crash \/ Finish
  BY <1>4 DEF Crash, Finish, NInv, UpdatedInv, HasWord, PendingInv, BubblesAreNeeded
<1>5. CASE UNCHANGED hostVars
  BY <1>5 DEF hostVars, NInv, UpdatedInv, HasWord, PendingInv, BubblesAreNeeded,
              NextElement, CurrentLine
<1>6. QED
  BY <1>1, <1>2, <1>3, <1>4, <1>5 DEF Next, BuildStep, Ended

(***************************************************************************)
(* No bubble is wasted: of any edge behind bubbles an operand is exactly   *)
(* DELAY/II words back (lines 728-734).  A distance of more than 100 words *)
(* would be kept also from nodes that have no word, whose entry in         *)
(* node_update_cycle is -100 (line 640).                                   *)
(***************************************************************************)
THEOREM NoneWasted ==
  ASSUME Gap <= 100 PROVE Spec => []BubblesAreNeeded
<1>1. NInv => BubblesAreNeeded
  BY DEF NInv
<1>2. IInv /\ NInv /\ [Next]_hostVars => NInv'
  BY StepKeepsNInv
<1>3. QED
  BY <1>1, <1>2, InitNInv, HostInvariant, PTL DEF Spec

-----------------------------------------------------------------------------
(***************************************************************************)
(* The stream against the file.  The lines that are finished have all      *)
(* their words, the line being read has as many as edge says, and each     *)
(* word is that of the element with its number.                            *)
(***************************************************************************)
FinishInv ==
  host = "launched" => current_index = Len(file) /\ Len(dram_data) = header.MERGED_LOOP_LEN

FileInv ==
  /\ \A i \in 0..current_index - 1 : Cardinality(WordsOf(i, Len(dram_data))) = WordsExpected(i)
  /\ Cardinality(WordsOf(current_index, Len(dram_data))) = edge
  /\ WordsAreElements

\* At first there are no words, and no node has one.
LEMMA InitFile == Init => FileInv /\ FinishInv
<1> SUFFICES ASSUME Init PROVE FileInv /\ FinishInv
  OBVIOUS
<1>1. Len(dram_data) = 0 /\ current_index = 0 /\ edge = 0 /\ 1..0 = {} /\ host = "reading"
  BY DEF Init
<1>2. \A i : WordsOf(i, 0) = {}
  BY <1>1 DEF WordsOf
<1>3. QED
  BY <1>1, <1>2, FS_EmptySet DEF FileInv, WordsAreElements, FinishInv

\* The words of a node are finitely many, and a node not read yet has none.
LEMMA WordsAreFinite ==
  ASSUME IInv, NEW i
  PROVE  /\ IsFiniteSet(WordsOf(i, Len(dram_data)))
         /\ i > current_index => WordsOf(i, Len(dram_data)) = {}
         /\ Len(dram_data) + 1 \notin WordsOf(i, Len(dram_data))
<1>1. Len(dram_data) \in Nat /\ current_index \in Nat
  BY DEF IInv, TypeOK
<1>2. IsFiniteSet(1..Len(dram_data)) /\ WordsOf(i, Len(dram_data)) \subseteq 1..Len(dram_data)
  BY <1>1, FS_Interval DEF WordsOf
<1>3. IsFiniteSet(WordsOf(i, Len(dram_data)))
  BY <1>2, FS_Subset
<1>4. \A s \in 1..Len(dram_data) : slot_node[s] \in 0..current_index
  BY DEF IInv, HistoryInv
<1>5. i > current_index => WordsOf(i, Len(dram_data)) = {}
  BY <1>1, <1>4 DEF WordsOf
<1>6. Len(dram_data) + 1 \notin 1..Len(dram_data)
  BY <1>1
<1>7. QED
  BY <1>2, <1>3, <1>5, <1>6

\* The words of each node after one more word w.
LEMMA WordsAfter ==
  ASSUME IInv, NEW w \in Word, Put(w), NEW i
  PROVE  /\ \A t \in 0..Len(dram_data) :
              {s \in 1..t : slot_node'[s] = i /\ DoComp(dram_data'[s])} = WordsOf(i, t)
         /\ {s \in 1..Len(dram_data) + 1 : slot_node'[s] = i /\ DoComp(dram_data'[s])} =
              IF i = current_index /\ DoComp(w)
                THEN WordsOf(i, Len(dram_data)) \cup {Len(dram_data) + 1}
                ELSE WordsOf(i, Len(dram_data))
<1> DEFINE k == Len(dram_data)
           Is(s) == slot_node[s] = i /\ DoComp(dram_data[s])
           IsAfter(s) == slot_node'[s] = i /\ DoComp(dram_data'[s])
<1>1. k \in Nat
  BY DEF IInv, TypeOK
<1>2. /\ \A s \in 1..k : IsAfter(s) <=> Is(s)
      /\ IsAfter(k + 1) <=> i = current_index /\ DoComp(w)
  BY PutWord
<1>3. \A t \in 0..k : WordsOf(i, t) = {s \in 1..t : Is(s)}
  BY DEF WordsOf
<1>4. k \in 0..k /\ \A s : s \in 1..k + 1 <=> s \in 1..k \/ s = k + 1
  BY <1>1
<1> HIDE DEF k, Is, IsAfter
<1>5. \A t \in 0..k : {s \in 1..t : IsAfter(s)} = WordsOf(i, t)
  <2> SUFFICES ASSUME NEW t \in 0..k PROVE {s \in 1..t : IsAfter(s)} = WordsOf(i, t)
    OBVIOUS
  <2>1. \A s \in 1..t : s \in 1..k
    BY <1>1
  <2>2. QED
    BY <1>2, <1>3, <2>1
<1>6. {s \in 1..k + 1 : IsAfter(s)} =
        IF i = current_index /\ DoComp(w) THEN WordsOf(i, k) \cup {k + 1} ELSE WordsOf(i, k)
  BY <1>2, <1>3, <1>4
<1>7. QED
  BY <1>5, <1>6 DEF k, IsAfter

\* The words that were there are still those of their elements.
LEMMA OldWordsAreElements ==
  ASSUME IInv, FileInv, NEW w \in Word, Put(w), file' = file,
         NEW t \in 1..Len(dram_data), DoComp(dram_data'[t])
  PROVE  IsWordOf(dram_data'[t],
                  file[slot_node'[t] + 1].elements[
                    Cardinality({s \in 1..t : /\ slot_node'[s] = slot_node'[t]
                                              /\ DoComp(dram_data'[s])})])
<1>1. dram_data'[t] = dram_data[t] /\ slot_node'[t] = slot_node[t]
  BY PutWord
<1>2. t \in 0..Len(dram_data)
  BY DEF IInv, TypeOK
<1>3. {s \in 1..t : slot_node'[s] = slot_node[t] /\ DoComp(dram_data'[s])}
        = WordsOf(slot_node[t], t)
  BY <1>2, WordsAfter
<1>4. QED
  BY <1>1, <1>3 DEF FileInv, WordsAreElements

\* A word that does not compute is of no element; it may end a line without elements.
LEMMA PutQuietWordFile ==
  ASSUME IInv, FileInv, NEW w \in Word, ~DoComp(w), Put(w), UNCHANGED <<file, edge>>,
         \/ current_index' = current_index
         \/ /\ edge = 0 /\ current_index' = current_index + 1
            /\ CurrentLine.kind # "D"
  PROVE  FileInv'
<1> DEFINE k == Len(dram_data)
<1>1. /\ Len(dram_data') = k + 1 /\ k \in Nat /\ current_index \in Nat
      /\ dram_data'[k + 1] = w
  BY PutWord DEF IInv, TypeOK
<1>2. \A i : {s \in 1..k + 1 : slot_node'[s] = i /\ DoComp(dram_data'[s])} = WordsOf(i, k)
  BY WordsAfter
<1>3. \A i : WordsOf(i, Len(dram_data))' = WordsOf(i, k)
  BY <1>1, <1>2 DEF WordsOf
<1>4. \A i : WordsExpected(i)' = WordsExpected(i)
  BY DEF WordsExpected
<1>5. WordsAreElements'
  <2>1. \A t \in 1..k + 1 : DoComp(dram_data'[t]) => t \in 1..k
    BY <1>1
  <2>2. QED
    BY <1>1, <2>1, OldWordsAreElements DEF WordsAreElements, WordsOf
<1> HIDE DEF k
<1>6. CASE current_index' = current_index
  BY <1>3, <1>4, <1>5, <1>6 DEF FileInv, k
<1>7. CASE edge = 0 /\ current_index' = current_index + 1 /\ CurrentLine.kind # "D"
  <2>1. WordsOf(current_index + 1, k) = {}
    BY <1>1, WordsAreFinite DEF k
  <2>2. WordsExpected(current_index) = 0
    BY <1>7 DEF WordsExpected, CurrentLine
  <2>3. \A i \in 0..current_index : i \in 0..current_index - 1 \/ i = current_index
    BY <1>1
  <2>4. \A i \in 0..current_index : Cardinality(WordsOf(i, k)) = WordsExpected(i)
    BY <1>7, <2>2, <2>3 DEF FileInv, k
  <2>5. 0..current_index' - 1 = 0..current_index
    BY <1>1, <1>7
  <2>6. QED
    BY <1>3, <1>4, <1>5, <1>7, <2>1, <2>4, <2>5, FS_EmptySet DEF FileInv, k
<1>8. QED
  BY <1>6, <1>7

\* An edge is placed with the word of the next element.
LEMMA PlaceEdgeKeepsFile ==
  ASSUME IInv, FileInv, PlaceEdge PROVE FileInv'
<1> DEFINE k == Len(dram_data)
           size == Len(CurrentLine.elements)
           w == EdgeWord(NextElement, EdgeControl(edge + 1, size))
<1>1. /\ CurrentLine \in Line /\ CurrentLine.kind = "D" /\ NextElement \in Element
      /\ InTable(NextElement)
  BY ReadingLine DEF PlaceEdge, AtEdge, Reading, HasNextElement
<1>2. size \in Nat /\ edge \in Nat /\ k \in Nat /\ current_index \in Nat
  BY <1>1, LineTypes DEF IInv, TypeOK
<1>3. w \in Word /\ Put(w) /\ file' = file
  BY <1>1, <1>2, WordTypes DEF PlaceEdge
<1>4. DoComp(w) /\ IsWordOf(w, NextElement)
  <2>1. w.prime = NextElement.prime /\ w.sub = NextElement.sub
    BY <1>1, EdgeWordIsElement
  <2>2. QED
    BY <1>2, <2>1 DEF DoComp, EdgeWord, EdgeControl, IsWordOf
<1>5. IF edge + 1 = size THEN current_index' = current_index + 1 /\ edge' = 0
                         ELSE current_index' = current_index /\ edge' = edge + 1
  BY DEF PlaceEdge
<1> HIDE DEF w, size
<1>6. /\ Len(dram_data') = k + 1
      /\ dram_data'[k + 1] = w /\ slot_node'[k + 1] = current_index
  BY <1>3, PutWord
<1>7. \A i : WordsOf(i, Len(dram_data))' =
               IF i = current_index THEN WordsOf(i, k) \cup {k + 1} ELSE WordsOf(i, k)
  <2>1. \A i : {s \in 1..k + 1 : slot_node'[s] = i /\ DoComp(dram_data'[s])} =
               IF i = current_index THEN WordsOf(i, k) \cup {k + 1} ELSE WordsOf(i, k)
    BY <1>3, <1>4, WordsAfter
  <2>2. QED
    BY <1>6, <2>1 DEF WordsOf
<1>8. \A i : WordsExpected(i)' = WordsExpected(i)
  BY <1>3 DEF WordsExpected
<1>9. Cardinality(WordsOf(current_index, k) \cup {k + 1}) = edge + 1
  BY WordsAreFinite, FS_AddElement DEF FileInv
<1>10. WordsAreElements'
  <2> SUFFICES ASSUME NEW t \in 1..k + 1, DoComp(dram_data'[t])
               PROVE  IsWordOf(dram_data'[t],
                        file[slot_node'[t] + 1].elements[
                          Cardinality({s \in 1..t : /\ slot_node'[s] = slot_node'[t]
                                                    /\ DoComp(dram_data'[s])})])
    BY <1>3, <1>6 DEF WordsAreElements, WordsOf
  <2>1. CASE t \in 1..k
    BY <1>3, <2>1, OldWordsAreElements
  <2>2. CASE t = k + 1
    <3>1. {s \in 1..k + 1 : slot_node'[s] = current_index /\ DoComp(dram_data'[s])}
            = WordsOf(current_index, k) \cup {k + 1}
      BY <1>3, <1>4, WordsAfter
    <3>2. NextElement = file[current_index + 1].elements[edge + 1]
      BY DEF NextElement, CurrentLine
    <3>3. QED
      BY <1>4, <1>6, <1>9, <2>2, <3>1, <3>2
  <2>3. QED
    BY <1>2, <2>1, <2>2
<1> HIDE DEF k
<1>11. /\ \A i \in 0..current_index - 1 :
            i # current_index /\ Cardinality(WordsOf(i, k)) = WordsExpected(i)
       /\ \A i \in 0..current_index : i \in 0..current_index - 1 \/ i = current_index
  BY <1>2 DEF FileInv, k
<1>12. CASE edge + 1 = size
  <2>1. WordsOf(current_index + 1, k) = {} /\ current_index + 1 # current_index
    BY <1>2, WordsAreFinite DEF k
  <2>2. WordsExpected(current_index) = edge + 1
    BY <1>1, <1>12 DEF WordsExpected, CurrentLine, size
  <2>3. 0..current_index' - 1 = 0..current_index
    BY <1>2, <1>5, <1>12
  <2>4. \A i \in 0..current_index' - 1 :
          Cardinality(WordsOf(i, Len(dram_data)))' = WordsExpected(i)'
    BY <1>7, <1>8, <1>9, <1>11, <2>2, <2>3
  <2>5. Cardinality(WordsOf(current_index, Len(dram_data)))' = edge'
    BY <1>5, <1>7, <1>12, <2>1, FS_EmptySet
  <2>6. QED
    BY <1>10, <2>4, <2>5 DEF FileInv
<1>13. CASE edge + 1 # size
  BY <1>5, <1>7, <1>8, <1>9, <1>10, <1>11, <1>13 DEF FileInv
<1>14. QED
  BY <1>12, <1>13

\* Only Finish launches, at the end of the file and with the length the header gives.
LEMMA StepKeepsFile == IInv /\ FileInv /\ FinishInv /\ [Next]_hostVars => FileInv' /\ FinishInv'
<1> SUFFICES ASSUME IInv, FileInv, FinishInv, [Next]_hostVars PROVE FileInv' /\ FinishInv'
  OBVIOUS
<1>1. CASE ReadLiteral \/ ReadTop
  <2>1. CurrentLine.kind # "D" /\ edge = 0
    BY <1>1 DEF ReadLiteral, ReadTop, Reading, IInv, EdgeInv, TypeOK
  <2>2. FileInv'
    BY <1>1, <2>1, WordTypes, PutQuietWordFile DEF ReadLiteral, ReadTop
  <2>3. QED
    BY <1>1, <2>2 DEF ReadLiteral, ReadTop, Reading, FinishInv
<1>2. CASE InsertBubble
  <2>1. FileInv'
    BY <1>2, WordTypes, PutQuietWordFile DEF InsertBubble
  <2>2. QED
    BY <1>2, <2>1 DEF InsertBubble, AtEdge, Reading, FinishInv
<1>3. CASE PlaceEdge
  BY <1>3, PlaceEdgeKeepsFile DEF PlaceEdge, AtEdge, Reading, FinishInv
<1>4. CASE Crash \/ Finish
  <2>1. UNCHANGED <<file, current_index, edge, dram_data, slot_node, header>>
    BY <1>4 DEF Crash, Finish
  <2>2. FileInv'
    BY <2>1 DEF FileInv, WordsOf, WordsExpected, WordsAreElements
  <2>3. FinishInv'
    BY <1>4, <2>1 DEF Crash, Finish, FinishInv, new_index
  <2>4. QED
    BY <2>2, <2>3
<1>5. CASE UNCHANGED hostVars
  BY <1>5 DEF hostVars, FileInv, FinishInv, WordsOf, WordsExpected, WordsAreElements
<1>6. QED
  BY <1>1, <1>2, <1>3, <1>4, <1>5 DEF Next, BuildStep, Ended

(***************************************************************************)
(* Whatever the file and the header, a stream the kernel is started with   *)
(* has the compiled length and is the whole file: the words of each        *)
(* decision line are its elements in order, and there are no others        *)
(* (lines 700-773).                                                        *)
(***************************************************************************)
THEOREM LaunchedIsFile == Spec => []LaunchedStreamIsFile
<1>1. IInv /\ CountInv /\ FileInv /\ FinishInv => LaunchedStreamIsFile
  BY DEF CountInv, Increments, FileInv, FinishInv, LaunchedStreamIsFile
<1>2. QED
  BY <1>1, InitCount, StepKeepsCount, InitFile, StepKeepsFile, HostInvariant, PTL DEF Spec

-----------------------------------------------------------------------------
(***************************************************************************)
(* The host and the kernel.                                                *)
(***************************************************************************)
Loop == header.MERGED_LOOP_LEN

\* The kernel's words are the host's words.
LEMMA SameWords ==
  \A w : (Kernel!DoComp(w) <=> DoComp(w)) /\ (Kernel!IncIdx(w) <=> IncIdx(w))
  BY DEF Kernel!DoComp, DoComp, Kernel!IncIdx, IncIdx

\* Position r of the q-th reading of the stream is position r of the stream.
LEMMA PositionInStream ==
  ASSUME NEW q \in Nat, NEW k \in Nat \ {0}, NEW r \in 0..k - 1
  PROVE  (q * k + r) % k = r
  BY Z3

-----------------------------------------------------------------------------
(***************************************************************************)
(* The invariant.  The kernel does nothing before the stream is complete;  *)
(* then the stream has the length of the kernel's loops.                   *)
(***************************************************************************)
LaunchInv ==
  /\ host = "launched" => Len(dram_data) = Loop
  /\ host # "launched" => /\ comp = "load" /\ dram_fifo = <<>> /\ inflight = <<>>
                          /\ read_m = 0 /\ read_n = 0 /\ m = 0

CounterInv ==
  /\ read_m \in Nat /\ read_n \in 0..Loop - 1
  /\ m \in Nat /\ n \in 0..Loop
  /\ dram_fifo \in Seq(Word)

\* The register cur_node_idx counts the increments of the words issued.
CountingInv == comp = "decision" => cur_node_idx = Cardinality(Increments(n))

\* Writes on their way: in the order of their words, each to the node of its word.
InflightInv ==
  /\ \E S : inflight \in Seq(S)
  /\ comp # "decision" => inflight = <<>>
  /\ \A i \in 1..Len(inflight) :
       /\ inflight[i].slot \in 0..n - 1
       /\ DoComp(dram_data[inflight[i].slot + 1])
       /\ inflight[i].node = slot_node[inflight[i].slot + 1]
  /\ \A i, j \in 1..Len(inflight) : i < j => inflight[i].slot < inflight[j].slot

KInv == /\ IInv /\ CountInv /\ LaunchInv /\ CounterInv
        /\ Kernel!FifoIsInOrder /\ CountingInv /\ InflightInv

-----------------------------------------------------------------------------
\* The loop has at least one word.
LEMMA LoopType == IInv => Loop \in Nat \ {0}
  BY DEF IInv, TypeOK, Header, Loop

\* What the kernel's definitions are in a run.
LEMMA LoopLenIsLoop == Kernel!LoopLen = Loop
  BY DEF Kernel!LoopLen, Loop

\* The initial states satisfy the invariant.
LEMMA InitKInv == RunInit => KInv
<1> SUFFICES ASSUME RunInit PROVE KInv
  OBVIOUS
<1>1. IInv /\ CountInv
  BY InitIInv, InitCount DEF RunInit
<1>2. LaunchInv /\ CounterInv /\ CountingInv /\ InflightInv
  BY <1>1, LoopType DEF RunInit, Init, Kernel!Init, LaunchInv, CounterInv,
                        CountingInv, InflightInv
<1>3. Kernel!FifoIsInOrder
  BY <1>1, LoopType, LoopLenIsLoop
  DEF RunInit, Kernel!Init, Kernel!FifoIsInOrder, Kernel!Produced, Kernel!Consumed
<1>4. QED
  BY <1>1, <1>2, <1>3 DEF KInv

\* The host runs before the kernel does.
LEMMA HostStepKeepsKInv ==
  ASSUME KInv, HostStep PROVE KInv'
<1>1. BuildStep /\ UNCHANGED kernelVars /\ host = "reading" /\ UNCHANGED header
  BY DEF HostStep, BuildStep, ReadLiteral, ReadTop, InsertBubble, PlaceEdge,
         AtEdge, Reading, Crash, Finish
<1>2. IInv' /\ CountInv'
  BY <1>1, StepKeepsIInv, StepKeepsCount DEF KInv, Next
<1>3. LaunchInv'
  <2>1. host' = "launched" => Len(dram_data') = Loop'
    BY <1>1 DEF BuildStep, ReadLiteral, ReadTop, InsertBubble, PlaceEdge,
                Crash, Finish, new_index, Loop
  <2>2. QED
    BY <1>1, <2>1 DEF KInv, LaunchInv, kernelVars
<1>4. CounterInv'
  BY <1>1 DEF KInv, CounterInv, kernelVars, Loop
<1>5. Kernel!FifoIsInOrder'
  BY <1>1, LoopType DEF KInv, LaunchInv, Kernel!FifoIsInOrder, Kernel!Produced,
               Kernel!Consumed, Kernel!LoopLen, kernelVars
<1>6. CountingInv' /\ InflightInv'
  BY <1>1 DEF KInv, LaunchInv, CountingInv, InflightInv, kernelVars
<1>7. QED
  BY <1>2, <1>3, <1>4, <1>5, <1>6 DEF KInv

-----------------------------------------------------------------------------
\* The kernel leaves the host's variables, so the host's invariants, alone.
LEMMA KernelKeepsHost ==
  ASSUME KInv, UNCHANGED hostVars
  PROVE  IInv' /\ CountInv' /\ Loop' = Loop /\ Loop \in Nat \ {0}
<1>1. IInv' /\ CountInv'
  BY StepKeepsIInv, StepKeepsCount DEF KInv
<1>2. QED
  BY <1>1, LoopType DEF KInv, hostVars, Loop

\* The word appended to the FIFO is the one at the reader's position.
LEMMA DramReadKeepsKInv ==
  ASSUME KInv, host = "launched", Kernel!DramRead, UNCHANGED hostVars
  PROVE  KInv'
<1>1. /\ IInv' /\ CountInv'
      /\ Loop \in Nat \ {0} /\ Loop' = Loop /\ Kernel!LoopLen = Loop
      /\ Kernel!LoopLen' = Loop /\ dram_data' = dram_data
  BY KernelKeepsHost, LoopLenIsLoop DEF hostVars, Kernel!LoopLen, Loop
<1>2. /\ read_m \in Nat /\ read_n \in 0..Loop - 1 /\ m \in Nat /\ n \in 0..Loop
      /\ dram_fifo \in Seq(Word) /\ dram_data \in Seq(Word) /\ Len(dram_data) = Loop
  BY DEF KInv, IInv, TypeOK, CounterInv, LaunchInv
<1>3. /\ dram_fifo' = Append(dram_fifo, dram_data[read_n + 1])
      /\ IF read_n + 1 = Loop THEN read_m' = read_m + 1 /\ read_n' = 0
                              ELSE read_n' = read_n + 1 /\ read_m' = read_m
      /\ UNCHANGED <<comp, m, n, cur_node_idx, inflight>>
  BY <1>1 DEF Kernel!DramRead
<1>4. LaunchInv' /\ CounterInv'
  <2>1. dram_data[read_n + 1] \in Word
    BY <1>2
  <2>2. CounterInv'
    BY <1>1, <1>2, <1>3, <2>1 DEF CounterInv
  <2>3. QED
    BY <1>1, <2>2 DEF KInv, LaunchInv, hostVars
<1>5. Kernel!FifoIsInOrder'
  <2>0. PICK C, P : C = Kernel!Consumed /\ P = Kernel!Produced
    OBVIOUS
  <2>1. C \in Nat /\ Kernel!Consumed' = C
    BY <1>1, <1>2, <1>3, <2>0 DEF Kernel!Consumed
  <2>2. P = read_m * Loop + read_n /\ P \in Nat
    BY <1>1, <1>2, <2>0 DEF Kernel!Produced
  <2>3. Kernel!Produced' = P + 1
    <3>1. Kernel!Produced' = read_m' * Loop + read_n'
      BY <1>1 DEF Kernel!Produced
    <3>2. CASE read_n + 1 = Loop
      BY <1>1, <1>2, <1>3, <2>2, <3>1, <3>2
    <3>3. CASE read_n + 1 # Loop
      BY <1>1, <1>2, <1>3, <2>2, <3>1, <3>3
    <3>4. QED
      BY <3>2, <3>3
  <2>4. P % Loop = read_n
    BY <1>1, <1>2, <2>2, PositionInStream
  <2>5. /\ Len(dram_fifo) = P - C
        /\ \A i \in 1..Len(dram_fifo) : dram_fifo[i] = dram_data[((C + i - 1) % Loop) + 1]
    BY <1>1, <2>0 DEF KInv, Kernel!FifoIsInOrder
  <2>6. Len(dram_fifo') = P + 1 - C
    <3>1. Len(dram_fifo) \in Nat /\ Len(dram_fifo') = Len(dram_fifo) + 1
      BY <1>2, <1>3
    <3>2. QED
      BY <2>1, <2>2, <2>5, <3>1
  <2>7. ASSUME NEW i \in 1..Len(dram_fifo')
        PROVE  dram_fifo'[i] = dram_data[((C + i - 1) % Loop) + 1]
    <3>1. CASE i \in 1..Len(dram_fifo)
      BY <1>2, <1>3, <2>5, <3>1
    <3>2. CASE i = Len(dram_fifo) + 1
      <4>1. C + i - 1 = P
        BY <2>1, <2>2, <2>5, <3>2
      <4>2. QED
        BY <1>2, <1>3, <2>4, <3>2, <4>1
    <3>3. QED
      BY <1>2, <1>3, <3>1, <3>2
  <2>8. Len(dram_fifo') = Kernel!Produced' - Kernel!Consumed'
    BY <2>1, <2>2, <2>3, <2>6
  <2>9. \A i \in 1..Len(dram_fifo') :
          dram_fifo'[i] = dram_data'[((Kernel!Consumed' + i - 1) % Kernel!LoopLen') + 1]
    BY <1>1, <2>1, <2>7
  <2>10. QED
    BY <2>8, <2>9 DEF Kernel!FifoIsInOrder
<1>6. CountingInv' /\ InflightInv'
  BY <1>1, <1>3 DEF KInv, CountingInv, InflightInv, Increments, hostVars
<1>7. QED
  BY <1>1, <1>4, <1>5, <1>6 DEF KInv

\* Loading, the literal and the true-node loop, and the report of a result
\* move comp between readings of the stream; the FIFO stands still.
LEMMA BetweenStreamsKeepsKInv ==
  ASSUME KInv, host = "launched", UNCHANGED hostVars,
         Kernel!Load \/ Kernel!Literals \/ Kernel!Tops \/ Kernel!Report
  PROVE  KInv'
<1>1. /\ IInv' /\ CountInv'
      /\ Loop \in Nat \ {0} /\ Loop' = Loop /\ Kernel!LoopLen = Loop
      /\ Kernel!LoopLen' = Loop /\ dram_data' = dram_data
  BY KernelKeepsHost, LoopLenIsLoop DEF hostVars, Kernel!LoopLen, Loop
<1>2. /\ read_m \in Nat /\ read_n \in 0..Loop - 1 /\ m \in Nat /\ n \in 0..Loop
  BY DEF KInv, CounterInv
<1>3. UNCHANGED <<read_m, read_n, dram_fifo, inflight>> /\ inflight = <<>>
  BY DEF Kernel!Load, Kernel!Literals, Kernel!Tops, Kernel!Report, Kernel!readerVars,
         KInv, InflightInv
<1>4. LaunchInv'
  BY <1>1 DEF KInv, LaunchInv, hostVars
<1>5. \/ comp # "decision" /\ comp' # "decision" /\ m' = m /\ n' = n
      \/ comp # "decision" /\ comp' = "decision" /\ m' = m /\ n' = 0 /\ cur_node_idx' = 0
      \/ comp = "decision" /\ n = Loop /\ comp' # "decision" /\ m' = m + 1 /\ n' = n
  BY <1>1 DEF Kernel!Load, Kernel!Literals, Kernel!Tops, Kernel!Report, Kernel!loopVars
<1>6. CounterInv'
  BY <1>1, <1>2, <1>3, <1>5 DEF KInv, CounterInv
<1>7. Kernel!Consumed' = Kernel!Consumed /\ Kernel!Produced' = Kernel!Produced
  BY <1>1, <1>2, <1>3, <1>5 DEF Kernel!Consumed, Kernel!Produced
<1>8. Kernel!FifoIsInOrder'
  BY <1>1, <1>3, <1>7 DEF KInv, Kernel!FifoIsInOrder
<1>9. CountingInv'
  <2>1. Increments(0) = {}
    BY DEF Increments
  <2>2. CASE comp' = "decision"
    BY <1>1, <1>5, <2>1, <2>2, FS_EmptySet DEF CountingInv, Increments
  <2>3. CASE comp' # "decision"
    BY <2>3 DEF CountingInv
  <2>4. QED
    BY <2>2, <2>3
<1>10. InflightInv'
  BY <1>3 DEF KInv, InflightInv
<1>11. QED
  BY <1>1, <1>4, <1>6, <1>8, <1>9, <1>10 DEF KInv

\* The word comp takes out of the FIFO is the one of its own position.
LEMMA HeadIsNextWord ==
  ASSUME KInv, host = "launched", comp = "decision", n < Loop, dram_fifo # <<>>
  PROVE  /\ Head(dram_fifo) = dram_data[n + 1]
         /\ n + 1 \in 1..Len(dram_data)
<1>1. /\ m \in Nat /\ n \in 0..Loop - 1 /\ dram_fifo \in Seq(Word)
      /\ Loop \in Nat \ {0} /\ Len(dram_data) = Loop
  BY LoopType DEF KInv, CounterInv, LaunchInv
<1>2. Kernel!Consumed = m * Loop + n /\ Kernel!LoopLen = Loop
  BY LoopLenIsLoop DEF Kernel!Consumed
<1>3. 1 \in 1..Len(dram_fifo)
  BY <1>1
<1>4. dram_fifo[1] = dram_data[((m * Loop + n + 1 - 1) % Loop) + 1]
  BY <1>2, <1>3 DEF KInv, Kernel!FifoIsInOrder
<1>5. m * Loop + n + 1 - 1 = m * Loop + n
  BY <1>1
<1>6. (m * Loop + n) % Loop = n
  BY <1>1, PositionInStream
<1>7. QED
  BY <1>1, <1>4, <1>5, <1>6

\* The node comp is at is the node the host wrote the next word for.
LEMMA NodeOfNextWord ==
  ASSUME KInv, comp = "decision", n \in 0..Len(dram_data) - 1
  PROVE  cur_node_idx = slot_node[n + 1]
<1>1. Len(dram_data) \in Nat
  BY DEF KInv, IInv, TypeOK
<1>2. n + 1 \in 1..Len(dram_data) /\ n + 1 - 1 = n
  BY <1>1
<1>3. slot_node[n + 1] = Cardinality(Increments(n))
  BY <1>2 DEF KInv, CountInv, CountAgrees, Increments
<1>4. QED
  BY <1>3 DEF KInv, CountingInv

LEMMA IssueKeepsKInv ==
  ASSUME KInv, host = "launched", Kernel!Issue, UNCHANGED hostVars
  PROVE  KInv'
<1> DEFINE w == dram_data[n + 1]
<1>1. /\ IInv' /\ CountInv'
      /\ Loop \in Nat \ {0} /\ Loop' = Loop /\ Kernel!LoopLen = Loop
      /\ Kernel!LoopLen' = Loop /\ dram_data' = dram_data /\ slot_node' = slot_node
  BY KernelKeepsHost, LoopLenIsLoop DEF hostVars, Kernel!LoopLen, Loop
<1>2. /\ comp = "decision" /\ n < Loop /\ dram_fifo # <<>>
      /\ dram_fifo' = Tail(dram_fifo) /\ n' = n + 1
      /\ UNCHANGED <<read_m, read_n, comp, m>>
  BY <1>1 DEF Kernel!Issue, Kernel!readerVars
<1>3. /\ read_m \in Nat /\ read_n \in 0..Loop - 1 /\ m \in Nat /\ n \in 0..Loop
      /\ dram_fifo \in Seq(Word) /\ dram_data \in Seq(Word) /\ Len(dram_data) = Loop
  BY DEF KInv, IInv, TypeOK, CounterInv, LaunchInv
<1>4. Head(dram_fifo) = w
  BY <1>2, HeadIsNextWord
<1>5. /\ \/ DoComp(w) /\ \E v : inflight' = Append(inflight, [slot |-> n, node |-> cur_node_idx, value |-> v])
         \/ ~DoComp(w) /\ inflight' = inflight
      /\ IncIdx(w) => cur_node_idx' = cur_node_idx + 1
      /\ ~IncIdx(w) => cur_node_idx' = cur_node_idx
  BY <1>4, SameWords DEF Kernel!Issue
<1> HIDE DEF w
<1>6. LaunchInv' /\ CounterInv'
  BY <1>1, <1>2, <1>3 DEF KInv, LaunchInv, CounterInv, hostVars
<1>7. Kernel!FifoIsInOrder'
  <2>0. PICK C, P : C = Kernel!Consumed /\ P = Kernel!Produced
    OBVIOUS
  <2>1. C = m * Loop + n /\ C \in Nat /\ Kernel!Consumed' = C + 1
    BY <1>1, <1>2, <1>3, <2>0 DEF Kernel!Consumed
  <2>2. P \in Nat /\ Kernel!Produced' = P
    BY <1>1, <1>2, <1>3, <2>0 DEF Kernel!Produced
  <2>3. /\ Len(dram_fifo) = P - C
        /\ \A i \in 1..Len(dram_fifo) : dram_fifo[i] = dram_data[((C + i - 1) % Loop) + 1]
    BY <1>1, <2>0 DEF KInv, Kernel!FifoIsInOrder
  <2>4. /\ Len(dram_fifo') = Len(dram_fifo) - 1
        /\ \A i \in 1..Len(dram_fifo') : i + 1 \in 1..Len(dram_fifo)
                                       /\ dram_fifo'[i] = dram_fifo[i + 1]
    BY <1>2, <1>3
  <2>5. Len(dram_fifo') = Kernel!Produced' - Kernel!Consumed'
    BY <2>1, <2>2, <2>3, <2>4
  <2>6. ASSUME NEW i \in 1..Len(dram_fifo')
        PROVE  dram_fifo'[i] = dram_data'[((Kernel!Consumed' + i - 1) % Kernel!LoopLen') + 1]
    <3>1. dram_fifo'[i] = dram_data[((C + (i + 1) - 1) % Loop) + 1]
      BY <2>3, <2>4
    <3>2. C + (i + 1) - 1 = (C + 1) + i - 1
      BY <2>1
    <3>3. QED
      BY <1>1, <2>1, <3>1, <3>2
  <2>7. QED
    BY <2>5, <2>6 DEF Kernel!FifoIsInOrder
<1>8. CountingInv'
  <2>1. cur_node_idx = Cardinality(Increments(n))
    BY <1>2 DEF KInv, CountingInv
  <2>2. IsFiniteSet(Increments(n)) /\ n + 1 \notin Increments(n)
    <3>1. IsFiniteSet(1..n) /\ Increments(n) \subseteq 1..n /\ n + 1 \notin 1..n
      BY <1>3, FS_Interval DEF Increments
    <3>2. QED
      BY <3>1, FS_Subset
  <2>3. Increments(n + 1) = IF IncIdx(w) THEN Increments(n) \cup {n + 1} ELSE Increments(n)
    <3>1. \A s : s \in 1..n + 1 <=> s \in 1..n \/ s = n + 1
      BY <1>3
    <3>2. QED
      BY <3>1 DEF Increments, w
  <2>4. cur_node_idx' = Cardinality(Increments(n + 1))
    BY <1>5, <2>1, <2>2, <2>3, FS_AddElement
  <2>5. QED
    BY <1>1, <1>2, <2>4 DEF CountingInv, Increments
<1>9. InflightInv'
  <2>1. PICK S : inflight \in Seq(S)
    BY DEF KInv, InflightInv
  <2>2. cur_node_idx = slot_node[n + 1]
    BY <1>2, <1>3, NodeOfNextWord
  <2>3. CASE DoComp(w)
    <3>1. PICK v : inflight' = Append(inflight, [slot |-> n, node |-> cur_node_idx, value |-> v])
      BY <1>5, <2>3
    <3>2. DEFINE x == [slot |-> n, node |-> cur_node_idx, value |-> v]
    <3>3. x.slot = n /\ x.node = slot_node[n + 1]
      BY <2>2
    <3> HIDE DEF x
    <3>4. inflight \in Seq(S \cup {x}) /\ inflight' \in Seq(S \cup {x})
      BY <2>1, <3>1 DEF x
    <3>5. /\ Len(inflight) \in Nat /\ Len(inflight') = Len(inflight) + 1
          /\ \A i \in 1..Len(inflight) : inflight'[i] = inflight[i]
          /\ inflight'[Len(inflight) + 1] = x
      BY <3>1, <3>4 DEF x
    <3>6. \A i \in 1..Len(inflight) :
            /\ inflight[i].slot \in 0..n - 1
            /\ DoComp(dram_data[inflight[i].slot + 1])
            /\ inflight[i].node = slot_node[inflight[i].slot + 1]
      BY DEF KInv, InflightInv
    <3>7. \A i \in 1..Len(inflight') :
            /\ inflight'[i].slot \in 0..n' - 1
            /\ DoComp(dram_data'[inflight'[i].slot + 1])
            /\ inflight'[i].node = slot_node'[inflight'[i].slot + 1]
      <4>1. SUFFICES ASSUME NEW i \in 1..Len(inflight')
                     PROVE  /\ inflight'[i].slot \in 0..n
                            /\ DoComp(dram_data[inflight'[i].slot + 1])
                            /\ inflight'[i].node = slot_node[inflight'[i].slot + 1]
        BY <1>1, <1>2, <1>3
      <4>2. CASE i = Len(inflight) + 1
        BY <1>3, <2>3, <3>3, <3>5, <4>2 DEF w
      <4>3. CASE i # Len(inflight) + 1
        <5>1. i \in 1..Len(inflight) /\ inflight'[i] = inflight[i]
          BY <3>5, <4>3
        <5>2. 0..n - 1 \subseteq 0..n
          BY <1>3
        <5>3. QED
          BY <3>6, <5>1, <5>2
      <4>4. QED
        BY <4>2, <4>3
    <3>8. \A i, j \in 1..Len(inflight') : i < j => inflight'[i].slot < inflight'[j].slot
      <4>1. \A i, j \in 1..Len(inflight) : i < j => inflight[i].slot < inflight[j].slot
        BY DEF KInv, InflightInv
      <4>2. SUFFICES ASSUME NEW i \in 1..Len(inflight'), NEW j \in 1..Len(inflight'), i < j
                     PROVE  inflight'[i].slot < inflight'[j].slot
        OBVIOUS
      <4>3. i \in 1..Len(inflight) /\ inflight'[i] = inflight[i]
        BY <3>5, <4>2
      <4>4. CASE j = Len(inflight) + 1
        <5>1. inflight'[j].slot = n
          BY <3>3, <3>5, <4>4
        <5>2. inflight[i].slot < n
          BY <1>3, <3>6, <4>3
        <5>3. QED
          BY <4>3, <5>1, <5>2
      <4>5. CASE j # Len(inflight) + 1
        <5>1. j \in 1..Len(inflight) /\ inflight'[j] = inflight[j]
          BY <3>5, <4>5
        <5>2. QED
          BY <4>1, <4>2, <4>3, <5>1
      <4>6. QED
        BY <4>4, <4>5
    <3>9. QED
      BY <1>2, <3>4, <3>7, <3>8 DEF InflightInv
  <2>4. CASE ~DoComp(w)
    BY <1>1, <1>2, <1>3, <1>5, <2>4 DEF KInv, InflightInv
  <2>5. QED
    BY <2>3, <2>4
<1>10. QED
  BY <1>1, <1>6, <1>7, <1>8, <1>9 DEF KInv

\* A write that lands leaves the others in flight.
LEMMA LandKeepsKInv ==
  ASSUME KInv, host = "launched", Kernel!Land, UNCHANGED hostVars
  PROVE  KInv'
<1>1. /\ IInv' /\ CountInv'
      /\ Loop' = Loop /\ Kernel!LoopLen' = Kernel!LoopLen
      /\ dram_data' = dram_data /\ slot_node' = slot_node
  BY KernelKeepsHost DEF hostVars, Kernel!LoopLen
<1>2. /\ inflight # <<>> /\ inflight' = Tail(inflight)
      /\ UNCHANGED <<read_m, read_n, dram_fifo, comp, m, n, cur_node_idx>>
  BY DEF Kernel!Land, Kernel!readerVars, Kernel!loopVars
<1>3. LaunchInv' /\ CounterInv' /\ CountingInv'
  BY <1>1, <1>2 DEF KInv, LaunchInv, CounterInv, CountingInv, Increments, hostVars
<1>4. Kernel!FifoIsInOrder'
  <2>1. Kernel!Consumed' = Kernel!Consumed /\ Kernel!Produced' = Kernel!Produced
    BY <1>1, <1>2 DEF Kernel!Consumed, Kernel!Produced
  <2>2. QED
    BY <1>1, <1>2, <2>1 DEF KInv, Kernel!FifoIsInOrder
<1>5. InflightInv'
  <2>1. PICK S : inflight \in Seq(S)
    BY DEF KInv, InflightInv
  <2>2. /\ inflight' \in Seq(S) /\ Len(inflight') = Len(inflight) - 1
        /\ \A i \in 1..Len(inflight') : i + 1 \in 1..Len(inflight)
                                      /\ inflight'[i] = inflight[i + 1]
    BY <1>2, <2>1
  <2>3. QED
    BY <1>1, <1>2, <2>2 DEF KInv, InflightInv
<1>6. QED
  BY <1>1, <1>3, <1>4, <1>5 DEF KInv

\* Every step of the run preserves the invariant.
LEMMA StepKeepsKInv == KInv /\ [RunNext]_vars => KInv'
<1> SUFFICES ASSUME KInv, [RunNext]_vars PROVE KInv'
  OBVIOUS
<1>1. CASE HostStep
  BY <1>1, HostStepKeepsKInv
<1>2. CASE KernelStep
  BY <1>2, DramReadKeepsKInv, BetweenStreamsKeepsKInv, IssueKeepsKInv, LandKeepsKInv
  DEF KernelStep, Kernel!Step, Kernel!CompStep
<1>3. CASE UNCHANGED vars
  <2>1. UNCHANGED hostVars /\ UNCHANGED kernelVars
    BY <1>3 DEF vars
  <2>2. IInv' /\ CountInv' /\ Loop' = Loop
    BY <2>1, KernelKeepsHost
  <2>3. LaunchInv' /\ CounterInv' /\ CountingInv' /\ InflightInv'
    BY <2>1, <2>2 DEF KInv, LaunchInv, CounterInv, CountingInv, InflightInv,
                      Increments, hostVars, kernelVars
  <2>4. Kernel!FifoIsInOrder'
    BY <2>1 DEF KInv, Kernel!FifoIsInOrder, Kernel!Produced, Kernel!Consumed,
                Kernel!LoopLen, hostVars, kernelVars
  <2>5. QED
    BY <2>2, <2>3, <2>4 DEF KInv
<1>4. QED
  BY <1>1, <1>2, <1>3 DEF RunNext, Finished

\* KInv holds in every state of every run of host and kernel.
THEOREM RunInvariant == RunSpec => []KInv
  BY InitKInv, StepKeepsKInv, PTL DEF RunSpec

(***************************************************************************)
(* Whatever the FIFO's depth and the number of queries, no word is lost,   *)
(* repeated or reordered between dram_read and comp (fpga_evaluate.cpp,    *)
(* lines 228-241 and 194-197).                                             *)
(***************************************************************************)
THEOREM FifoCorrect == RunSpec => []FifoIsInOrder
<1>1. KInv => FifoIsInOrder
  BY DEF KInv, FifoIsInOrder
<1>2. QED
  BY <1>1, RunInvariant, PTL

(***************************************************************************)
(* For every network, the node comp computes is the node the host meant.   *)
(***************************************************************************)
THEOREM SameNodeCorrect == RunSpec => []SameNode
<1>1. KInv => SameNode
  BY NodeOfNextWord DEF SameNode, KInv, CounterInv
<1>2. QED
  BY <1>1, RunInvariant, PTL

\* In a state of the invariant no write in flight is to an operand of the next word.
LEMMA NoStaleReadInKInv == KInv => NoStaleRead
<1> SUFFICES ASSUME KInv, host = "launched", IdsAreLines(file), comp = "decision", n < Loop,
                    DoComp(dram_data[n + 1]), Kernel!PipelineAdvances,
                    NEW i \in 1..Len(inflight),
                    inflight[i].node \in {dram_data[n + 1].prime, dram_data[n + 1].sub}
             PROVE  FALSE
  BY SameWords, LoopLenIsLoop DEF NoStaleRead, Kernel!NoStaleRead, Kernel!NextWord
<1>1. n \in 0..Loop - 1 /\ Loop \in Nat /\ Len(dram_data) = Loop
  BY LoopType DEF KInv, CounterInv, LaunchInv
<1>2. /\ inflight[i].slot \in 0..n - 1
      /\ DoComp(dram_data[inflight[i].slot + 1])
      /\ inflight[i].node = slot_node[inflight[i].slot + 1]
  BY DEF KInv, InflightInv
<1>21. inflight[i].slot + 1 \in 1..Len(dram_data) /\ n + 1 \in 1..Len(dram_data)
       /\ inflight[i].slot + 1 < n + 1
  BY <1>1, <1>2
<1>22. slot_node[inflight[i].slot + 1] # slot_node[n + 1]
  <2>1. slot_node[inflight[i].slot + 1] < slot_node[n + 1]
    BY <1>2, <1>21 DEF KInv, IInv, OrderInv
  <2>2. slot_node[n + 1] \in Nat
    BY <1>21 DEF KInv, IInv, TypeOK, HistoryInv
  <2>3. QED
    BY <2>1, <2>2
<1>3. n + 1 - (inflight[i].slot + 1) >= Gap
  <2>1. PICK s \in 1..Len(dram_data), t \in 1..Len(dram_data) :
          s = inflight[i].slot + 1 /\ t = n + 1
    BY <1>21
  <2>2. /\ s < t /\ slot_node[s] # slot_node[t]
        /\ DoComp(dram_data[s]) /\ DoComp(dram_data[t])
        /\ slot_node[s] \in {dram_data[t].prime, dram_data[t].sub}
    BY <1>2, <1>21, <1>22, <2>1
  <2>3. t - s >= Gap
    BY <2>2 DEF KInv, IInv, EdgesAreSpaced
  <2>4. t - s = n + 1 - (inflight[i].slot + 1)
    <3>1. PICK a \in Int : a = inflight[i].slot
      BY <1>1, <1>2
    <3>2. s = a + 1
      BY <2>1, <3>1
    <3>3. t - s = n + 1 - (a + 1)
      BY <2>1, <3>2, <1>1
    <3>4. QED
      BY <3>1, <3>3
  <2>5. QED
    BY <2>3, <2>4, Zenon
<1>4. inflight[1].slot <= inflight[i].slot /\ inflight[1].slot \in Int
  BY <1>2 DEF KInv, InflightInv
<1>5. n - inflight[1].slot < Latency
  BY DEF Kernel!PipelineAdvances, Kernel!Oldest, KInv, InflightInv
<1>6. QED
  BY <1>1, <1>2, <1>3, <1>4, <1>5, KernelAssumption, LatencyAssumption, GapType

(***************************************************************************)
(* For every file whose nodes are numbered by their lines and every        *)
(* latency up to Gap, no iteration of the pipeline reads a cache entry a   *)
(* write to which is still on its way: the declaration "dependence inter   *)
(* false" is true (fpga_evaluate.cpp, lines 196-197), because the host     *)
(* keeps the edges apart.                                                  *)
(***************************************************************************)
THEOREM NoStaleReads == RunSpec => []NoStaleRead
  BY NoStaleReadInKInv, RunInvariant, PTL

-----------------------------------------------------------------------------
(***************************************************************************)
(* The reference evaluation.  It is defined by recursion on the lines; it  *)
(* is well defined when children are on earlier lines, and then the value  *)
(* of a line is that of its kind, computed from the values before it.      *)
(***************************************************************************)
Less == {ss \in Nat \X Nat : ss[1] < ss[2]}

\* A set of numbers has a least one.
LEMMA LeastOf ==
  ASSUME NEW T \in SUBSET Nat, T # {}
  PROVE  \E x \in T : \A y \in T : x <= y
<1>1. IsWellFoundedOn(Less, Nat)
  BY NatLessThanWellFounded DEF OpToRel, Less
<1>2. \E x \in T : \A y \in T : ~ (<<y, x>> \in Less)
  BY <1>1, WFMin
<1>3. \A x, y \in T : <<y, x>> \notin Less => x <= y
  BY DEF Less
<1>4. QED
  BY <1>2, <1>3

\* The nonzero values among those of the elements, and the sum as the choice of one.
Nonzero(elements, value) ==
  {ElementValue(elements[j], value) : j \in 1..Len(elements)} \ {NegInf}
OneOf(S) == IF S = {} THEN NegInf ELSE CHOOSE v \in S : TRUE

LEMMA SumIsOneOf ==
  ASSUME NEW elements, NEW value
  PROVE  SumOf(elements, value) = OneOf(Nonzero(elements, value))
  BY Zenon DEF SumOf, OneOf, Nonzero

LEMMA OneOfSingleton ==
  ASSUME NEW v PROVE OneOf({v}) = v
<1>1. \E x : x \in {v} /\ TRUE
  OBVIOUS
<1>2. (CHOOSE x : x \in {v} /\ TRUE) \in {v}
  BY <1>1, Zenon
<1>3. (CHOOSE x \in {v} : TRUE) \in {v}
  BY <1>2, Zenon
<1> DEFINE c == CHOOSE x \in {v} : TRUE
<1>4. OneOf({v}) = c
  BY Zenon DEF OneOf
<1>5. c \in {v}
  BY <1>3
<1> HIDE DEF c
<1>6. QED
  BY <1>4, <1>5

\* All lines are nodes whose children are on earlier lines.
IsNetwork(lines) == lines \in Seq(Line) /\ ChildrenBeforeParents(lines)

\* The value of a line depends on the values of earlier lines only.
LEMMA LineValueAgrees ==
  ASSUME NEW lines, IsNetwork(lines), NEW i \in 1..Len(lines), NEW inst,
         NEW f, NEW g, \A k \in 0..i - 2 : f[k] = g[k]
  PROVE  LineValue(lines[i], inst, f) = LineValue(lines[i], inst, g)
<1> DEFINE l == lines[i]
<1>1. l \in Line
  BY DEF IsNetwork
<1>2. l.kind = "D" => SumOf(l.elements, f) = SumOf(l.elements, g)
  <2> SUFFICES ASSUME l.kind = "D" PROVE SumOf(l.elements, f) = SumOf(l.elements, g)
    OBVIOUS
  <2>1. l.elements \in Seq(Element)
    BY <1>1, LineTypes
  <2>2. \A j \in 1..Len(l.elements) :
           l.elements[j].prime \in 0..i - 2 /\ l.elements[j].sub \in 0..i - 2
    <3> SUFFICES ASSUME NEW j \in 1..Len(l.elements)
                 PROVE  l.elements[j].prime \in 0..i - 2 /\ l.elements[j].sub \in 0..i - 2
      OBVIOUS
    <3>1. l.elements[j] \in Element
      BY <2>1
    <3>2. l.elements[j].prime < i - 1 /\ l.elements[j].sub < i - 1
      BY DEF IsNetwork, ChildrenBeforeParents
    <3>3. QED
      BY <3>1, <3>2 DEF Element
  <2>3. \A j \in 1..Len(l.elements) :
           ElementValue(l.elements[j], f) = ElementValue(l.elements[j], g)
    BY <2>2 DEF ElementValue
  <2>4. Nonzero(l.elements, f) = Nonzero(l.elements, g)
    BY <2>3 DEF Nonzero
  <2>5. QED
    BY <2>4, SumIsOneOf
<1>3. QED
  <2> HIDE DEF l
  <2>1. LineValue(l, inst, f) = LineValue(l, inst, g)
    BY <1>1, <1>2 DEF LineValue, Line, LiteralLine, TopLine, DecisionLine
  <2>2. QED
    BY <2>1 DEF l

\* f has the values of the lines before line k.
Solves(f, lines, inst, size, k) ==
  /\ \A i \in 0..k - 1 : f[i] = LineValue(lines[i + 1], inst, f)
  /\ f[size] = NegInf
  /\ f = [i \in 0..size |-> f[i]]

LEMMA SolutionGrows ==
  ASSUME NEW lines, IsNetwork(lines), NEW inst, NEW size \in Nat, size = Len(lines),
         NEW k \in 0..size - 1, NEW f, Solves(f, lines, inst, size, k)
  PROVE  \E g : Solves(g, lines, inst, size, k + 1)
<1> DEFINE g == [f EXCEPT ![k] = LineValue(lines[k + 1], inst, f)]
<1>1. /\ g[k] = LineValue(lines[k + 1], inst, f)
      /\ \A i \in 0..size : i # k => g[i] = f[i]
      /\ g = [i \in 0..size |-> g[i]]
  <2>1. f = [i \in 0..size |-> f[i]] /\ k \in 0..size
    BY DEF Solves
  <2>2. DOMAIN f = 0..size
    BY <2>1
  <2>3. QED
    BY <2>1, <2>2
<1> HIDE DEF g
<1>2. g[size] = NegInf
  BY <1>1 DEF Solves
<1>3. ASSUME NEW i \in 0..k PROVE g[i] = LineValue(lines[i + 1], inst, g)
  <2>1. i + 1 \in 1..Len(lines) /\ i + 1 - 2 = i - 1
    OBVIOUS
  <2>2. \A j \in 0..i - 1 : f[j] = g[j]
    <3>1. \A j \in 0..i - 1 : j \in 0..size /\ j # k
      OBVIOUS
    <3>2. QED
      BY <1>1, <3>1
  <2>3. LineValue(lines[i + 1], inst, f) = LineValue(lines[i + 1], inst, g)
    <3>1. PICK p \in 1..Len(lines) : p = i + 1 /\ p - 2 = i - 1
      BY <2>1
    <3>2. \A j \in 0..p - 2 : f[j] = g[j]
      BY <2>2, <3>1
    <3>3. LineValue(lines[p], inst, f) = LineValue(lines[p], inst, g)
      BY <3>2, LineValueAgrees
    <3>4. QED
      BY <3>1, <3>3
  <2>4. g[i] = LineValue(lines[i + 1], inst, f)
    <3>1. CASE i = k
      BY <1>1, <3>1
    <3>2. CASE i # k
      <4>1. i \in 0..k - 1 /\ i \in 0..size
        BY <3>2
      <4>2. f[i] = LineValue(lines[i + 1], inst, f)
        BY <4>1 DEF Solves
      <4>3. QED
        BY <1>1, <3>2, <4>1, <4>2
    <3>3. QED
      BY <3>1, <3>2
  <2>5. QED
    BY <2>3, <2>4
<1>4. \A i \in 0..(k + 1) - 1 : g[i] = LineValue(lines[i + 1], inst, g)
  BY <1>3
<1>5. QED
  BY <1>1, <1>2, <1>4, Zenon DEF Solves

LEMMA SolutionExists ==
  ASSUME NEW lines, IsNetwork(lines), NEW inst, NEW size \in Nat, size = Len(lines)
  PROVE  \E f : Solves(f, lines, inst, size, size)
<1> DEFINE T == {k \in 0..size : ~ \E f : Solves(f, lines, inst, size, k)}
<1>1. SUFFICES ASSUME T # {} PROVE FALSE
  BY DEF T
<1>2. PICK x \in T : \A y \in T : x <= y
  <2>1. T \in SUBSET Nat
    OBVIOUS
  <2> HIDE DEF T
  <2>2. QED
    BY <1>1, <2>1, LeastOf
<1>3. x \in 0..size /\ ~ \E f : Solves(f, lines, inst, size, x)
  BY DEF T
<1>4. x # 0
  <2> DEFINE f == [i \in 0..size |-> NegInf]
  <2>1. f[size] = NegInf /\ f = [i \in 0..size |-> f[i]]
    OBVIOUS
  <2> HIDE DEF f
  <2>2. Solves(f, lines, inst, size, 0)
    BY <2>1 DEF Solves
  <2>3. QED
    BY <1>3, <2>2
<1>5. x - 1 \in 0..size - 1 /\ x - 1 + 1 = x /\ x - 1 \in 0..size
  BY <1>3, <1>4
<1>6. x - 1 \notin T
  BY <1>2, <1>3
<1>7. \E f : Solves(f, lines, inst, size, x - 1)
  BY <1>5, <1>6
<1>8. \E g : Solves(g, lines, inst, size, x)
  BY <1>5, <1>7, SolutionGrows
<1>9. QED
  BY <1>3, <1>8

\* The recursion of Reference has the value it says.
LEMMA ReferenceUnfolds ==
  ASSUME NEW lines, IsNetwork(lines), NEW inst
  PROVE  \A i \in 0..Len(lines) - 1 :
           Reference(lines, inst)[i] = LineValue(lines[i + 1], inst, Reference(lines, inst))
<1>1. PICK size \in Nat : size = Len(lines)
  BY DEF IsNetwork
<1> DEFINE F(f) == [i \in 0..size |-> IF i = size THEN NegInf
                                                ELSE LineValue(lines[i + 1], inst, f)]
<1>2. PICK f : Solves(f, lines, inst, size, size)
  BY <1>1, SolutionExists
<1>3. f = F(f)
  <2>1. \A i \in 0..size : i = size \/ i \in 0..size - 1
    OBVIOUS
  <2>2. \A i \in 0..size : f[i] = IF i = size THEN NegInf ELSE LineValue(lines[i + 1], inst, f)
    BY <1>2, <2>1 DEF Solves
  <2>3. f = [i \in 0..size |-> f[i]]
    BY <1>2 DEF Solves
  <2>4. QED
    BY <2>2, <2>3
<1>4. \E h : h = [i \in 0..Len(lines) |-> IF i = Len(lines) THEN NegInf
                                                       ELSE LineValue(lines[i + 1], inst, h)]
  BY <1>1, <1>3, Zenon
<1>5. Reference(lines, inst) =
        [i \in 0..Len(lines) |-> IF i = Len(lines) THEN NegInf
                                   ELSE LineValue(lines[i + 1], inst, Reference(lines, inst))]
  BY <1>4, Zenon DEF Reference
<1> DEFINE R == Reference(lines, inst)
<1>6. R = F(R)
  BY <1>1, <1>5, Zenon
<1> HIDE DEF R
<1>7. \A i \in 0..size - 1 : R[i] = LineValue(lines[i + 1], inst, R)
  BY <1>6
<1>8. QED
  BY <1>1, <1>7 DEF R

-----------------------------------------------------------------------------
(***************************************************************************)
(* The kernel takes the maximum of the elements, one by one, where the     *)
(* reference sums them.  v is the maximum over the first c elements.       *)
(***************************************************************************)
IsMaxOf(elements, c, value, v) ==
  \/ v = NegInf /\ \A j \in 1..c : ElementValue(elements[j], value) = NegInf
  \/ v # NegInf /\ \E j \in 1..c : ElementValue(elements[j], value) = v

OneNonzero(elements, value) ==
  \A j, k \in 1..Len(elements) :
    /\ ElementValue(elements[j], value) # NegInf
    /\ ElementValue(elements[k], value) # NegInf
    => j = k

LEMMA NextMax ==
  ASSUME NEW elements \in Seq(Element), NEW value, NEW v, NEW c \in Nat, c < Len(elements),
         OneNonzero(elements, value), IsMaxOf(elements, c, value, v)
  PROVE  IsMaxOf(elements, c + 1, value, LogMax(v, ElementValue(elements[c + 1], value)))
<1> DEFINE x(j) == ElementValue(elements[j], value)
<1>1. \A j : j \in 1..c + 1 <=> j \in 1..c \/ j = c + 1
  OBVIOUS
<1>2. \A j \in 1..c : x(j) # NegInf /\ x(c + 1) # NegInf => FALSE
  <2>1. \A j \in 1..c : j \in 1..Len(elements) /\ c + 1 \in 1..Len(elements) /\ j # c + 1
    OBVIOUS
  <2>2. QED
    BY <2>1 DEF OneNonzero
<1>3. v # NegInf /\ x(c + 1) # NegInf => FALSE
  BY <1>2 DEF IsMaxOf
<1>4. LogMax(v, x(c + 1)) = IF v = NegInf THEN x(c + 1) ELSE v
  BY <1>3 DEF LogMax, LogLess
<1> HIDE DEF x
<1>5. CASE v = NegInf
  <2>1. \A j \in 1..c : x(j) = NegInf
    BY <1>5 DEF IsMaxOf, x
  <2>2. x(c + 1) # NegInf => \E j \in 1..c + 1 : x(j) = x(c + 1)
    BY <1>1
  <2>3. x(c + 1) = NegInf => \A j \in 1..c + 1 : x(j) = NegInf
    BY <1>1, <2>1
  <2>4. LogMax(v, x(c + 1)) = x(c + 1)
    BY <1>4, <1>5
  <2>5. IsMaxOf(elements, c + 1, value, x(c + 1))
    BY <2>2, <2>3, Zenon DEF IsMaxOf, x
  <2>6. QED
    BY <2>4, <2>5 DEF x
<1>6. CASE v # NegInf
  <2>1. \E j \in 1..c + 1 : x(j) = v
    BY <1>1, <1>6 DEF IsMaxOf, x
  <2>2. LogMax(v, x(c + 1)) = v
    BY <1>4, <1>6
  <2>3. QED
    BY <1>6, <2>1, <2>2 DEF IsMaxOf, x
<1>7. QED
  BY <1>5, <1>6

\* Over all elements, the maximum is the sum.
LEMMA FullMax ==
  ASSUME NEW elements \in Seq(Element), NEW value, NEW v,
         OneNonzero(elements, value), IsMaxOf(elements, Len(elements), value, v)
  PROVE  v = SumOf(elements, value)
<1> DEFINE x(j) == ElementValue(elements[j], value)
           size == Len(elements)
<1>1. CASE v = NegInf
  <2>1. Nonzero(elements, value) = {}
    BY <1>1 DEF IsMaxOf, Nonzero
  <2>2. OneOf({}) = NegInf
    BY Zenon DEF OneOf
  <2>3. QED
    BY <1>1, <2>1, <2>2, SumIsOneOf
<1>2. CASE v # NegInf
  <2>1. PICK j \in 1..size : x(j) = v
    BY <1>2 DEF IsMaxOf
  <2>2. \A k \in 1..size : x(k) # NegInf => k = j
    BY <1>2, <2>1 DEF OneNonzero
  <2>3. Nonzero(elements, value) = {v}
    <3>1. Nonzero(elements, value) = {x(k) : k \in 1..size} \ {NegInf}
      BY DEF Nonzero
    <3> HIDE DEF x, size
    <3>2. QED
      BY <1>2, <2>1, <2>2, <3>1
  <2>4. QED
    BY <2>3, OneOfSingleton, SumIsOneOf
<1>3. QED
  BY <1>1, <1>2

-----------------------------------------------------------------------------
(***************************************************************************)
(* What the host has read.  The elements it has accepted are of earlier    *)
(* lines, and the vectors it passes beside the stream have one entry for   *)
(* every literal, and one and two parameters for every true node, as far   *)
(* as the header has room for them.                                        *)
(***************************************************************************)
LinesOf(kind, c) == {i \in 1..c : file[i].kind = kind}

ChildrenAreEarlier(i, c) ==
  \A j \in 1..c : /\ file[i].elements[j].prime < i - 1
                  /\ file[i].elements[j].sub < i - 1

ElementsInv ==
  /\ \A i \in LinesOf("D", current_index) :
       /\ file[i].elements # <<>>
       /\ ChildrenAreEarlier(i, Len(file[i].elements))
  /\ edge # 0 => ChildrenAreEarlier(current_index + 1, edge)

IsLiteralOf(l, line, i) == l = [var |-> line.var, sign |-> line.sign, index |-> i - 1]

LiteralsInv ==
  /\ Len(literals) = Cardinality(LinesOf("L", current_index))
  /\ \A k \in 1..Len(literals) : \E i \in LinesOf("L", current_index) : IsLiteralOf(literals[k], file[i], i)
  /\ \A i \in LinesOf("L", current_index) : \E k \in 1..Len(literals) : literals[k].index = i - 1

IsTopOf(t, line, i) == t = [var |-> line.var, index |-> i - 1]

HasParameters(params, k, line) ==
  /\ 2 * k - 1 <= Len(params) => params[2 * k - 1] = AsBoolParam(line.pos)
  /\ 2 * k <= Len(params) => params[2 * k] = AsBoolParam(line.neg)

\* The k-th entry is of the k-th true node.
IsTopNumber(k, i) == k = Cardinality(LinesOf("T", i))

AtMost(a, b) == IF a < b THEN a ELSE b

TopsInv ==
  /\ Len(tops) = Cardinality(LinesOf("T", current_index))
  /\ Len(bool_params) = AtMost(2 * Len(tops), header.TOTAL_BOOL_PARAM)
  /\ \A k \in 1..Len(tops) : \E i \in LinesOf("T", current_index) :
       IsTopOf(tops[k], file[i], i) /\ HasParameters(bool_params, k, file[i]) /\ IsTopNumber(k, i)
  /\ \A i \in LinesOf("T", current_index) : \E k \in 1..Len(tops) : tops[k].index = i - 1

HInv == ElementsInv /\ LiteralsInv /\ TopsInv

LEMMA InitHInv == Init => HInv
<1> SUFFICES ASSUME Init PROVE HInv
  OBVIOUS
<1>1. current_index = 0 /\ edge = 0 /\ literals = <<>> /\ tops = <<>> /\ bool_params = <<>>
  BY DEF Init
<1>2. \A kind : LinesOf(kind, current_index) = {}
  BY <1>1 DEF LinesOf
<1>3. Len(literals) = 0 /\ Len(tops) = 0 /\ Len(bool_params) = 0
  BY <1>1
<1>31. AtMost(2 * Len(tops), header.TOTAL_BOOL_PARAM) = 0
  <2>1. header.TOTAL_BOOL_PARAM \in Nat
    BY InitIInv DEF IInv, TypeOK, Header
  <2>2. QED
    BY <1>3, <2>1 DEF AtMost
<1>4. ElementsInv
  BY <1>1, <1>2 DEF ElementsInv
<1>5. LiteralsInv
  BY <1>2, <1>3, FS_EmptySet DEF LiteralsInv
<1>6. TopsInv
  BY <1>2, <1>3, <1>31, FS_EmptySet DEF TopsInv
<1>7. QED
  BY <1>4, <1>5, <1>6 DEF HInv

\* The lines of a kind after one more line has been read.
LEMMA LinesGrow ==
  ASSUME IInv, NEW kind, current_index < Len(file)
  PROVE  /\ LinesOf(kind, current_index + 1) =
              IF CurrentLine.kind = kind THEN LinesOf(kind, current_index) \cup {current_index + 1}
                                         ELSE LinesOf(kind, current_index)
         /\ Cardinality(LinesOf(kind, current_index + 1)) =
              IF CurrentLine.kind = kind THEN Cardinality(LinesOf(kind, current_index)) + 1
                                         ELSE Cardinality(LinesOf(kind, current_index))
         /\ Cardinality(LinesOf(kind, current_index)) \in Nat
<1> DEFINE c == current_index
<1>1. c \in Nat
  BY DEF IInv, TypeOK
<1>2. \A i : i \in 1..c + 1 <=> i \in 1..c \/ i = c + 1
  BY <1>1
<1>3. LinesOf(kind, c + 1) = IF CurrentLine.kind = kind THEN LinesOf(kind, c) \cup {c + 1}
                                                        ELSE LinesOf(kind, c)
  BY <1>2 DEF LinesOf, CurrentLine
<1>4. IsFiniteSet(LinesOf(kind, c)) /\ c + 1 \notin LinesOf(kind, c)
  <2>1. IsFiniteSet(1..c) /\ LinesOf(kind, c) \subseteq 1..c /\ c + 1 \notin 1..c
    BY <1>1, FS_Interval DEF LinesOf
  <2>2. QED
    BY <2>1, FS_Subset
<1>5. Cardinality(LinesOf(kind, c) \cup {c + 1}) = Cardinality(LinesOf(kind, c)) + 1
  BY <1>4, FS_AddElement
<1>6. Cardinality(LinesOf(kind, c)) \in Nat
  BY <1>4, FS_CardinalityType
<1> HIDE DEF c
<1>7. QED
  BY <1>3, <1>5, <1>6 DEF c

\* Reading a line of another kind leaves the lines of a kind as they are.
LEMMA OtherLine ==
  ASSUME IInv, HInv, current_index < Len(file), UNCHANGED <<file, header>>,
         current_index' = current_index + 1
  PROVE  /\ CurrentLine.kind # "D" /\ edge' = edge /\ edge = 0 => ElementsInv'
         /\ CurrentLine.kind # "L" /\ literals' = literals => LiteralsInv'
         /\ CurrentLine.kind # "T" /\ tops' = tops /\ bool_params' = bool_params => TopsInv'
<1>1. \A kind : CurrentLine.kind # kind =>
         LinesOf(kind, current_index)' = LinesOf(kind, current_index)
  <2> SUFFICES ASSUME NEW kind, CurrentLine.kind # kind
               PROVE  LinesOf(kind, current_index)' = LinesOf(kind, current_index)
    OBVIOUS
  <2>1. LinesOf(kind, current_index + 1) = LinesOf(kind, current_index)
    BY LinesGrow
  <2>2. QED
    BY <2>1 DEF LinesOf
<1>2. \A i, c : ChildrenAreEarlier(i, c)' <=> ChildrenAreEarlier(i, c)
  BY DEF ChildrenAreEarlier
<1>3. CurrentLine.kind # "D" /\ edge' = edge /\ edge = 0 => ElementsInv'
  BY <1>1, <1>2 DEF HInv, ElementsInv
<1>4. CurrentLine.kind # "L" /\ literals' = literals => LiteralsInv'
  BY <1>1 DEF HInv, LiteralsInv
<1>5. CurrentLine.kind # "T" /\ tops' = tops /\ bool_params' = bool_params => TopsInv'
  <2>1. \A k, i : IsTopNumber(k, i)' <=> IsTopNumber(k, i)
    BY DEF IsTopNumber, LinesOf
  <2>2. QED
    BY <1>1, <2>1 DEF HInv, TopsInv
<1>6. QED
  BY <1>3, <1>4, <1>5

LEMMA ReadLiteralKeepsHInv == ASSUME IInv, HInv, ReadLiteral PROVE HInv'
<1>1. /\ CurrentLine.kind = "L" /\ current_index < Len(file)
      /\ UNCHANGED <<file, header>> /\ current_index' = current_index + 1
      /\ literals' = Append(literals, [var |-> CurrentLine.var, sign |-> CurrentLine.sign,
                                       index |-> current_index])
      /\ UNCHANGED <<edge, tops, bool_params>>
  BY DEF ReadLiteral, Reading
<1>2. edge = 0
  BY <1>1 DEF IInv, EdgeInv, TypeOK
<1>3. ElementsInv' /\ TopsInv'
  BY <1>1, <1>2, OtherLine
<1> DEFINE c == current_index
           L == LinesOf("L", c)
<1>4. c \in Nat
  BY DEF IInv, TypeOK
<1>5. LinesOf("L", c)' = L \cup {c + 1} /\ Cardinality(L \cup {c + 1}) = Cardinality(L) + 1
  <2>1. /\ LinesOf("L", c + 1) = L \cup {c + 1}
        /\ Cardinality(LinesOf("L", c + 1)) = Cardinality(L) + 1
    BY <1>1, LinesGrow
  <2>2. QED
    BY <1>1, <2>1 DEF LinesOf
<1>6. PICK k \in Nat : k = Len(literals)
  BY DEF IInv, TypeOK
<1>7. /\ Len(literals') = k + 1
      /\ \A j \in 1..k : literals'[j] = literals[j]
      /\ IsLiteralOf(literals'[k + 1], file[c + 1], c + 1)
  <2>1. /\ Len(literals') = k + 1
        /\ \A j \in 1..k : literals'[j] = literals[j]
        /\ literals'[k + 1] = [var |-> CurrentLine.var, sign |-> CurrentLine.sign, index |-> c]
    BY <1>1, <1>6 DEF IInv, TypeOK
  <2>2. (c + 1) - 1 = c
    BY <1>4
  <2>3. literals'[k + 1] = [var |-> file[c + 1].var, sign |-> file[c + 1].sign,
                            index |-> (c + 1) - 1]
    BY <2>1, <2>2, Zenon DEF CurrentLine
  <2>4. QED
    BY <2>1, <2>3 DEF IsLiteralOf
<1>8. /\ k = Cardinality(L)
      /\ \A j \in 1..k : \E i \in L : IsLiteralOf(literals[j], file[i], i)
      /\ \A i \in L : \E j \in 1..k : literals[j].index = i - 1
  BY <1>6 DEF HInv, LiteralsInv
<1> HIDE DEF L
<1>9. \A j : j \in 1..k + 1 <=> j \in 1..k \/ j = k + 1
  BY <1>6
<1>10. \A j \in 1..k + 1 : \E i \in L \cup {c + 1} : IsLiteralOf(literals'[j], file[i], i)
  BY <1>7, <1>8, <1>9
<1>11. \A i \in L \cup {c + 1} : \E j \in 1..k + 1 : literals'[j].index = i - 1
  BY <1>7, <1>8, <1>9 DEF IsLiteralOf
<1>12. LiteralsInv'
  <2>1. Len(literals') = Cardinality(LinesOf("L", c)')
    BY <1>5, <1>7, <1>8
  <2>2. QED
    BY <1>1, <1>5, <1>7, <1>10, <1>11, <2>1 DEF LiteralsInv
<1>13. QED
  BY <1>3, <1>12 DEF HInv

\* Of two for each of k true nodes, as many parameters as there is room for.
AreOf(params, k, room) == Len(params) = AtMost(2 * k, room)

\* more has two parameters more, if there is room.
HasTwoMore(more, params, k, a, b) ==
  /\ Len(params) <= Len(more)
  /\ \A j \in 1..Len(params) : more[j] = params[j]
  /\ 2 * k + 1 <= Len(more) => more[2 * k + 1] = a
  /\ 2 * k + 2 <= Len(more) => more[2 * k + 2] = b

\* As many parameters as there is room for are kept, of the old ones and of two more.
LEMMA TwoMore ==
  ASSUME NEW params \in Seq(Int), NEW a \in Int, NEW b \in Int, NEW k \in Nat, NEW room \in Nat,
         AreOf(params, k, room), NEW more, more = UpTo(room, params \o <<a, b>>)
  PROVE  AreOf(more, k + 1, room) /\ HasTwoMore(more, params, k, a, b)
<1>1. PICK l \in Nat : l = Len(params)
  OBVIOUS
<1>2. PICK pair : pair = <<a, b>>
  OBVIOUS
<1>3. /\ pair \in Seq(Int) /\ Len(pair) = 2 /\ pair[1] = a /\ pair[2] = b
  BY <1>2
<1>4. PICK s : s = params \o pair
  OBVIOUS
<1>5. /\ s \in Seq(Int) /\ Len(s) = l + 2
      /\ \A j \in 1..l + 2 : s[j] = IF j <= l THEN params[j] ELSE pair[j - l]
  <2>1. /\ params \o pair \in Seq(Int)
        /\ Len(params \o pair) = Len(params) + Len(pair)
        /\ \A j \in 1..Len(params) + Len(pair) :
             (params \o pair)[j] = IF j <= Len(params) THEN params[j] ELSE pair[j - Len(params)]
    BY <1>3, ConcatProperties
  <2>2. QED
    BY <1>1, <1>3, <1>4, <2>1
<1>6. more = UpTo(room, s)
  BY <1>2, <1>4
<1>7. /\ Len(more) = AtMost(l + 2, room) /\ Len(more) \in Nat
      /\ \A j \in 1..Len(more) : more[j] = s[j]
  <2>1. /\ UpTo(room, s) \in Seq(Int)
        /\ Len(UpTo(room, s)) = IF Len(s) < room THEN Len(s) ELSE room
        /\ \A j \in 1..Len(UpTo(room, s)) : UpTo(room, s)[j] = s[j]
    BY <1>5, UpToTypes
  <2>2. /\ Len(more) = IF l + 2 < room THEN l + 2 ELSE room
        /\ \A j \in 1..Len(more) : more[j] = s[j]
    BY <1>5, <1>6, <2>1
  <2>3. PICK size : size = Len(more)
    OBVIOUS
  <2>4. size = AtMost(l + 2, room) /\ size \in Nat
    BY <2>2, <2>3 DEF AtMost
  <2>5. QED
    BY <2>2, <2>3, <2>4, Zenon
<1>8. /\ (l = 2 * k /\ 2 * k <= room) \/ (l = room /\ room < 2 * k)
      /\ Len(more) = AtMost(2 * (k + 1), room) /\ l <= Len(more) /\ Len(more) <= l + 2
      /\ 2 * k + 1 <= Len(more) => l = 2 * k
  <2>1. PICK size \in Nat : size = Len(more)
    BY <1>7
  <2>2. l = AtMost(2 * k, room) /\ size = AtMost(l + 2, room)
    BY <1>1, <1>7, <2>1 DEF AreOf
  <2>3. (l = 2 * k /\ 2 * k <= room) \/ (l = room /\ room < 2 * k)
    BY <2>2 DEF AtMost
  <2>4. size = AtMost(2 * (k + 1), room) /\ l <= size /\ size <= l + 2
    BY <2>2, <2>3 DEF AtMost
  <2>5. 2 * k + 1 <= size => l = 2 * k
    BY <2>2, <2>3 DEF AtMost
  <2>6. QED
    BY <2>1, <2>3, <2>4, <2>5, Zenon
<1>9. ASSUME NEW j \in 1..l PROVE more[j] = params[j]
  <2>1. j \in 1..Len(more) /\ j \in 1..l + 2 /\ j <= l
    BY <1>8, <1>7
  <2>2. QED
    BY <1>5, <1>7, <2>1
<1>10. ASSUME 2 * k + 1 <= Len(more) PROVE more[2 * k + 1] = a
  <2>1. /\ 2 * k + 1 \in 1..Len(more) /\ 2 * k + 1 \in 1..l + 2 /\ ~ (2 * k + 1 <= l)
        /\ (2 * k + 1) - l = 1
    BY <1>7, <1>8, <1>10
  <2>2. more[2 * k + 1] = s[2 * k + 1] /\ s[2 * k + 1] = pair[(2 * k + 1) - l]
    BY <1>5, <1>7, <2>1
  <2>3. QED
    BY <1>3, <2>1, <2>2
<1>11. ASSUME 2 * k + 2 <= Len(more) PROVE more[2 * k + 2] = b
  <2>1. /\ 2 * k + 2 \in 1..Len(more) /\ 2 * k + 2 \in 1..l + 2 /\ ~ (2 * k + 2 <= l)
        /\ (2 * k + 2) - l = 2
    BY <1>7, <1>8, <1>11
  <2>2. more[2 * k + 2] = s[2 * k + 2] /\ s[2 * k + 2] = pair[(2 * k + 2) - l]
    BY <1>5, <1>7, <2>1
  <2>3. QED
    BY <1>3, <2>1, <2>2
<1>12. HasTwoMore(more, params, k, a, b)
  BY <1>1, <1>8, <1>9, <1>10, <1>11 DEF HasTwoMore
<1>13. QED
  BY <1>8, <1>12 DEF AreOf

LEMMA ReadTopKeepsHInv == ASSUME IInv, HInv, ReadTop PROVE HInv'
<1> DEFINE c == current_index
           T == LinesOf("T", c)
           a == AsBoolParam(CurrentLine.pos)
           b == AsBoolParam(CurrentLine.neg)
<1>1. /\ CurrentLine.kind = "T" /\ current_index < Len(file)
      /\ UNCHANGED <<file, header>> /\ current_index' = current_index + 1
      /\ tops' = Append(tops, [var |-> CurrentLine.var, index |-> current_index])
      /\ bool_params' = UpTo(header.TOTAL_BOOL_PARAM, bool_params \o <<a, b>>)
      /\ UNCHANGED <<edge, literals>>
  BY DEF ReadTop, Reading
<1>2. edge = 0 /\ CurrentLine = file[c + 1]
  BY <1>1 DEF IInv, EdgeInv, TypeOK, CurrentLine
<1>3. ElementsInv' /\ LiteralsInv'
  BY <1>1, <1>2, OtherLine
<1>4. c \in Nat /\ header.TOTAL_BOOL_PARAM \in Nat
  BY DEF IInv, TypeOK, Header
<1>5. /\ LinesOf("T", c)' = T \cup {c + 1} /\ Cardinality(T \cup {c + 1}) = Cardinality(T) + 1
      /\ LinesOf("T", c + 1) = T \cup {c + 1}
  <2>1. /\ LinesOf("T", c + 1) = T \cup {c + 1}
        /\ Cardinality(LinesOf("T", c + 1)) = Cardinality(T) + 1
    BY <1>1, LinesGrow
  <2>2. QED
    BY <1>1, <2>1 DEF LinesOf
<1>6. PICK k \in Nat : k = Len(tops)
  BY DEF IInv, TypeOK
<1>7. /\ Len(tops') = k + 1
      /\ \A j \in 1..k : tops'[j] = tops[j]
      /\ tops'[k + 1] = [var |-> CurrentLine.var, index |-> c]
  BY <1>1, <1>6 DEF IInv, TypeOK
<1>8. a \in Int /\ b \in Int
  <2>1. CurrentLine.pos \in Int /\ CurrentLine.neg \in Int
    BY <1>1, ReadingLine, LineTypes
  <2>2. QED
    BY <2>1 DEF AsBoolParam, Signed
<1> HIDE DEF a, b
<1>9. /\ Len(bool_params') = AtMost(2 * (k + 1), header.TOTAL_BOOL_PARAM)
      /\ Len(bool_params) <= Len(bool_params')
      /\ \A j \in 1..Len(bool_params) : bool_params'[j] = bool_params[j]
      /\ 2 * k + 1 <= Len(bool_params') => bool_params'[2 * k + 1] = a
      /\ 2 * k + 2 <= Len(bool_params') => bool_params'[2 * k + 2] = b
  <2>1. bool_params \in Seq(Int) /\ Len(bool_params) = AtMost(2 * k, header.TOTAL_BOOL_PARAM)
    BY <1>6 DEF IInv, TypeOK, HInv, TopsInv
  <2>2. bool_params' = UpTo(header.TOTAL_BOOL_PARAM, bool_params \o <<a, b>>)
    BY DEF ReadTop, a, b
  <2>3. PICK params, more, room :
          params = bool_params /\ more = bool_params' /\ room = header.TOTAL_BOOL_PARAM
    OBVIOUS
  <2>4. AreOf(params, k, room) /\ more = UpTo(room, params \o <<a, b>>)
    BY <2>1, <2>2, <2>3, Zenon DEF AreOf
  <2>5. params \in Seq(Int) /\ room \in Nat
    BY <1>4, <2>1, <2>3
  <2>6. AreOf(more, k + 1, room) /\ HasTwoMore(more, params, k, a, b)
    BY <1>6, <1>8, <2>4, <2>5, TwoMore
  <2>7. QED
    BY <2>3, <2>6, Zenon DEF AreOf, HasTwoMore
<1>10. IsTopOf(tops'[k + 1], file[c + 1], c + 1)
  <2>1. (c + 1) - 1 = c
    BY <1>4
  <2>2. tops'[k + 1] = [var |-> file[c + 1].var, index |-> (c + 1) - 1]
    BY <1>2, <1>7, <2>1, Zenon
  <2>3. QED
    BY <2>2 DEF IsTopOf
<1>11. HasParameters(bool_params', k + 1, file[c + 1])
  <2>1. 2 * (k + 1) - 1 = 2 * k + 1 /\ 2 * (k + 1) = 2 * k + 2
    BY <1>6
  <2>2. a = AsBoolParam(file[c + 1].pos) /\ b = AsBoolParam(file[c + 1].neg)
    BY <1>2 DEF a, b
  <2>3. QED
    BY <1>9, <2>1, <2>2 DEF HasParameters
<1>12. /\ k = Cardinality(T)
       /\ Len(bool_params) = AtMost(2 * k, header.TOTAL_BOOL_PARAM)
       /\ \A j \in 1..k : \E i \in T :
            IsTopOf(tops[j], file[i], i) /\ HasParameters(bool_params, j, file[i])
            /\ IsTopNumber(j, i)
       /\ \A i \in T : \E j \in 1..k : tops[j].index = i - 1
  BY <1>6 DEF HInv, TopsInv
<1>13. IsTopNumber(k + 1, c + 1)
  BY <1>5, <1>12 DEF IsTopNumber
<1>14. \A j, i : IsTopNumber(j, i)' <=> IsTopNumber(j, i)
  BY <1>1 DEF IsTopNumber, LinesOf
<1> HIDE DEF T
<1>15. \A j : j \in 1..k + 1 <=> j \in 1..k \/ j = k + 1
  BY <1>6
<1>16. ASSUME NEW j \in 1..k, NEW line, HasParameters(bool_params, j, line)
       PROVE  HasParameters(bool_params', j, line)
  <2>1. PICK l, more \in Nat : l = Len(bool_params) /\ more = Len(bool_params')
    BY <1>4, <1>6, <1>9, <1>12 DEF AtMost
  <2>2. l = AtMost(2 * k, header.TOTAL_BOOL_PARAM) /\ more = AtMost(2 * (k + 1), header.TOTAL_BOOL_PARAM)
    BY <1>9, <1>12, <2>1
  <2>3. /\ 2 * j - 1 <= more => 2 * j - 1 \in 1..l
        /\ 2 * j <= more => 2 * j \in 1..l
    BY <1>4, <1>6, <2>1, <2>2 DEF AtMost
  <2>4. /\ 2 * j - 1 <= more => bool_params[2 * j - 1] = AsBoolParam(line.pos)
        /\ 2 * j <= more => bool_params[2 * j] = AsBoolParam(line.neg)
    BY <1>16, <2>1, <2>3 DEF HasParameters
  <2>5. \A x \in 1..l : bool_params'[x] = bool_params[x]
    BY <1>9, <2>1
  <2>6. QED
    BY <2>1, <2>3, <2>4, <2>5 DEF HasParameters
<1>17. ASSUME NEW j \in 1..k + 1
       PROVE  \E i \in T \cup {c + 1} :
                IsTopOf(tops'[j], file[i], i) /\ HasParameters(bool_params', j, file[i])
                /\ IsTopNumber(j, i)
  <2>1. CASE j \in 1..k
    <3>1. PICK i \in T : IsTopOf(tops[j], file[i], i) /\ HasParameters(bool_params, j, file[i])
                         /\ IsTopNumber(j, i)
      BY <1>12, <2>1
    <3>2. tops'[j] = tops[j] /\ HasParameters(bool_params', j, file[i])
      BY <1>7, <1>16, <2>1, <3>1
    <3>3. QED
      BY <3>1, <3>2
  <2>2. CASE j = k + 1
    BY <1>10, <1>11, <1>13, <2>2
  <2>3. QED
    BY <1>15, <2>1, <2>2
<1>18. \A i \in T \cup {c + 1} : \E j \in 1..k + 1 : tops'[j].index = i - 1
  BY <1>7, <1>10, <1>12, <1>15 DEF IsTopOf
<1>19. TopsInv'
  <2>1. Len(tops') = Cardinality(LinesOf("T", c)')
    BY <1>5, <1>7, <1>12
  <2>2. QED
    BY <1>1, <1>5, <1>7, <1>9, <1>14, <1>17, <1>18, <2>1 DEF TopsInv
<1>20. QED
  BY <1>3, <1>19 DEF HInv

\* The vectors and the lines read stay as they are within a decision line.
LEMMA SameVectors ==
  ASSUME HInv, UNCHANGED <<file, header, current_index, literals, tops, bool_params>>
  PROVE  LiteralsInv' /\ TopsInv'
<1>1. \A kind : LinesOf(kind, current_index)' = LinesOf(kind, current_index)
  BY DEF LinesOf
<1>2. LiteralsInv'
  BY <1>1 DEF HInv, LiteralsInv
<1>3. TopsInv'
  <2>1. \A k, i : IsTopNumber(k, i)' <=> IsTopNumber(k, i)
    BY DEF IsTopNumber, LinesOf
  <2>2. QED
    BY <1>1, <2>1 DEF HInv, TopsInv
<1>4. QED
  BY <1>2, <1>3

\* An edge is placed only when the operands of its element are known.
LEMMA PlaceEdgeKeepsHInv == ASSUME IInv, IdsAreLines(file), HInv, PlaceEdge PROVE HInv'
<1> DEFINE c == current_index
           size == Len(CurrentLine.elements)
<1>1. /\ CurrentLine.kind = "D" /\ c < Len(file) /\ UNCHANGED <<file, header>>
      /\ HasNextElement /\ CurrentLine.elements # <<>> /\ Known(NextElement)
      /\ UNCHANGED <<literals, tops, bool_params>>
      /\ \/ edge + 1 = size /\ current_index' = c + 1 /\ edge' = 0
         \/ edge + 1 # size /\ current_index' = c /\ edge' = edge + 1
  BY DEF PlaceEdge, AtEdge, Reading, HasNextElement
<1>2. c \in Nat /\ edge \in Nat
  BY DEF IInv, TypeOK
<1>3. ChildrenAreEarlier(c + 1, edge + 1)
  <2>1. ChildrenAreEarlier(c + 1, edge)
    <3>1. CASE edge = 0
      BY <3>1 DEF ChildrenAreEarlier
    <3>2. CASE edge # 0
      BY <3>2 DEF HInv, ElementsInv
    <3>3. QED
      BY <3>1, <3>2
  <2>2. /\ file[c + 1].elements[edge + 1].prime < c
        /\ file[c + 1].elements[edge + 1].sub < c
    <3>1. NextElement \in Element
      BY <1>1, ReadingLine
    <3>2. NextElement.prime < c /\ NextElement.sub < c
      BY <1>1, <3>1, KnownIsEarlier
    <3>3. QED
      BY <3>2 DEF NextElement, CurrentLine
  <2>3. (c + 1) - 1 = c /\ \A j : j \in 1..edge + 1 <=> j \in 1..edge \/ j = edge + 1
    BY <1>2
  <2>4. QED
    BY <2>1, <2>2, <2>3 DEF ChildrenAreEarlier
<1>4. \A i, k : ChildrenAreEarlier(i, k)' <=> ChildrenAreEarlier(i, k)
  BY <1>1 DEF ChildrenAreEarlier
<1>5. CASE edge + 1 = size
  <2>1. current_index' = c + 1 /\ edge' = 0
    BY <1>1, <1>5
  <2>2. LiteralsInv' /\ TopsInv'
    BY <1>1, <2>1, OtherLine
  <2>3. LinesOf("D", current_index)' = LinesOf("D", c) \cup {c + 1}
    <3>1. LinesOf("D", c + 1) = LinesOf("D", c) \cup {c + 1}
      BY <1>1, LinesGrow
    <3>2. QED
      BY <1>1, <2>1, <3>1 DEF LinesOf
  <2>4. /\ file[c + 1].elements # <<>>
        /\ ChildrenAreEarlier(c + 1, Len(file[c + 1].elements))
    BY <1>1, <1>3, <1>5 DEF CurrentLine
  <2>5. ElementsInv'
    BY <1>1, <1>4, <2>1, <2>3, <2>4 DEF HInv, ElementsInv
  <2>6. QED
    BY <2>2, <2>5 DEF HInv
<1>6. CASE edge + 1 # size
  <2>1. current_index' = c /\ edge' = edge + 1
    BY <1>1, <1>6
  <2>2. LiteralsInv' /\ TopsInv'
    BY <1>1, <2>1, SameVectors
  <2>3. LinesOf("D", current_index)' = LinesOf("D", c)
    BY <1>1, <2>1 DEF LinesOf
  <2>4. ElementsInv'
    BY <1>1, <1>3, <1>4, <2>1, <2>3 DEF HInv, ElementsInv
  <2>5. QED
    BY <2>2, <2>4 DEF HInv
<1>7. QED
  BY <1>5, <1>6

LEMMA StepKeepsHInv == IInv /\ IdsAreLines(file) /\ HInv /\ [Next]_hostVars => HInv'
<1> SUFFICES ASSUME IInv, IdsAreLines(file), HInv, [Next]_hostVars PROVE HInv'
  OBVIOUS
<1>1. CASE ReadLiteral
  BY <1>1, ReadLiteralKeepsHInv
<1>2. CASE ReadTop
  BY <1>2, ReadTopKeepsHInv
<1>3. CASE PlaceEdge
  BY <1>3, PlaceEdgeKeepsHInv
<1>4. CASE InsertBubble \/ Crash \/ Finish \/ UNCHANGED hostVars
  <2>1. UNCHANGED <<file, header, current_index, edge, literals, tops, bool_params>>
    BY <1>4 DEF InsertBubble, Crash, Finish, hostVars
  <2>2. LiteralsInv' /\ TopsInv'
    BY <2>1, SameVectors
  <2>3. /\ \A i, c : ChildrenAreEarlier(i, c)' <=> ChildrenAreEarlier(i, c)
        /\ LinesOf("D", current_index)' = LinesOf("D", current_index)
    BY <2>1 DEF ChildrenAreEarlier, LinesOf
  <2>4. ElementsInv'
    BY <2>1, <2>3 DEF HInv, ElementsInv
  <2>5. QED
    BY <2>2, <2>4 DEF HInv
<1>5. QED
  BY <1>1, <1>2, <1>3, <1>4 DEF Next, BuildStep, Ended

-----------------------------------------------------------------------------
(***************************************************************************)
(* The stream of a launched run.  Its words, taken from the file, have the *)
(* parameters of the file, and operands with values to be read from the    *)
(* cache: those of earlier nodes.                                          *)
(***************************************************************************)
BInv == KInv /\ FileInv /\ FinishInv /\ HInv /\ RunFits

WordsUpTo(i, t) == Cardinality(WordsOf(i, t))

Value == Reference(file, Kernel!Query(m))

LEMMA NetworkIsRead ==
  ASSUME BInv, host = "launched"
  PROVE  /\ IsNetwork(file) /\ Len(file) \in Nat \ {0}
         /\ current_index = Len(file) /\ edge = 0
         /\ Len(dram_data) = Loop /\ Loop \in Nat \ {0}
         /\ header.PSDD_SIZE = Len(file)
<1>1. /\ file \in Seq(Line) /\ current_index = Len(file) /\ edge \in Nat
      /\ Len(dram_data) = Loop /\ Loop \in Nat \ {0}
      /\ header.PSDD_SIZE = Len(file) /\ header.PSDD_SIZE \in Nat \ {0}
  BY LoopType DEF BInv, KInv, IInv, TypeOK, FinishInv, LaunchInv, RunFits, InputsFit, HeaderFits,
         Header
<1>2. edge = 0
  BY <1>1 DEF BInv, KInv, IInv, EdgeInv
<1>3. ASSUME NEW i \in 1..Len(file), file[i].kind = "D"
      PROVE  ChildrenAreEarlier(i, Len(file[i].elements))
  BY <1>1, <1>3 DEF BInv, HInv, ElementsInv, LinesOf
<1>4. ChildrenBeforeParents(file)
  BY <1>3 DEF ChildrenBeforeParents, ChildrenAreEarlier
<1>5. QED
  BY <1>1, <1>2, <1>4 DEF IsNetwork

\* The stream goes through the nodes in their order.
LEMMA NodesInOrder ==
  ASSUME IInv, CountInv, NEW s \in 1..Len(dram_data), NEW t \in 1..Len(dram_data), s <= t
  PROVE  slot_node[s] <= slot_node[t] /\ slot_node[s] \in Nat /\ slot_node[t] \in Nat
<1>1. \A k \in 1..Len(dram_data) :
        slot_node[k] \in Nat /\ slot_node[k] = Cardinality(Increments(k - 1))
  BY DEF IInv, TypeOK, HistoryInv, CountInv, CountAgrees, Increments
<1>2. IsFiniteSet(Increments(t - 1)) /\ Increments(s - 1) \subseteq Increments(t - 1)
  <2>1. 1..s - 1 \subseteq 1..t - 1 /\ IsFiniteSet(1..t - 1)
    BY FS_Interval
  <2>2. Increments(t - 1) \subseteq 1..t - 1
    BY DEF Increments
  <2>3. Increments(s - 1) \subseteq Increments(t - 1)
    BY <2>1 DEF Increments
  <2>4. QED
    BY <2>1, <2>2, <2>3, FS_Subset
<1>3. Cardinality(Increments(s - 1)) <= Cardinality(Increments(t - 1))
  BY <1>2, FS_Subset
<1>4. QED
  BY <1>1, <1>3

\* The words of a node among the first t + 1 words.
LEMMA WordsOfNext ==
  ASSUME IInv, NEW t \in 0..Len(dram_data) - 1, NEW i
  PROVE  /\ WordsUpTo(i, t) \in Nat
         /\ WordsUpTo(i, t + 1) = IF slot_node[t + 1] = i /\ DoComp(dram_data[t + 1])
                                    THEN WordsUpTo(i, t) + 1 ELSE WordsUpTo(i, t)
<1>0. Len(dram_data) \in Nat
  BY DEF IInv, TypeOK
<1>1. \A s : s \in 1..t + 1 <=> s \in 1..t \/ s = t + 1
  BY <1>0
<1>2. WordsOf(i, t + 1) = IF slot_node[t + 1] = i /\ DoComp(dram_data[t + 1])
                            THEN WordsOf(i, t) \cup {t + 1} ELSE WordsOf(i, t)
  BY <1>1 DEF WordsOf
<1>3. IsFiniteSet(WordsOf(i, t)) /\ t + 1 \notin WordsOf(i, t)
  <2>1. t \in Int /\ t + 1 \notin 1..t
    BY <1>0
  <2>2. IsFiniteSet(1..t) /\ WordsOf(i, t) \subseteq 1..t
    BY <2>1, FS_Interval DEF WordsOf
  <2>3. QED
    BY <2>1, <2>2, FS_Subset
<1>4. /\ Cardinality(WordsOf(i, t)) \in Nat
      /\ Cardinality(WordsOf(i, t) \cup {t + 1}) = Cardinality(WordsOf(i, t)) + 1
  BY <1>3, FS_CardinalityType, FS_AddElement
<1>5. QED
  BY <1>2, <1>4 DEF WordsUpTo

\* A range of the stream without words of a node leaves their number as it is.
LEMMA SameWordsUpTo ==
  ASSUME NEW i, NEW s \in Nat, NEW t \in Nat, s <= t,
         \A k \in s + 1..t : ~ (DoComp(dram_data[k]) /\ slot_node[k] = i)
  PROVE  WordsUpTo(i, s) = WordsUpTo(i, t)
<1>1. \A k : k \in 1..t <=> k \in 1..s \/ k \in s + 1..t
  OBVIOUS
<1>2. WordsOf(i, s) = WordsOf(i, t)
  BY <1>1 DEF WordsOf
<1>3. QED
  BY <1>2 DEF WordsUpTo

\* The word of an element: its operands and its parameter.
IsElementWord(w, e) == w.prime = e.prime /\ w.sub = e.sub /\ w.param = e.weight

LEMMA WordOfStream ==
  ASSUME BInv, host = "launched", NEW t \in 1..Len(dram_data), DoComp(dram_data[t]),
         NEW i, i = slot_node[t]
  PROVE  /\ i \in 0..Len(file) - 1 /\ file[i + 1].kind = "D"
         /\ file[i + 1].elements \in Seq(Element)
         /\ WordsUpTo(i, t) \in 1..Len(file[i + 1].elements)
         /\ IsElementWord(dram_data[t], file[i + 1].elements[WordsUpTo(i, t)])
         /\ dram_data[t].prime \in 0..i - 1 /\ dram_data[t].sub \in 0..i - 1
<1>1. /\ IsNetwork(file) /\ Len(file) \in Nat \ {0} /\ current_index = Len(file) /\ edge = 0
      /\ Len(dram_data) \in Nat \ {0}
  BY NetworkIsRead
<1>2. i \in 0..Len(file) - 1
  BY <1>1 DEF BInv, KInv, IInv, FreshInv, HistoryInv
<1>3. t \in WordsOf(i, t) /\ WordsOf(i, t) \subseteq WordsOf(i, Len(dram_data))
      /\ IsFiniteSet(WordsOf(i, Len(dram_data)))
  <2>1. 1..t \subseteq 1..Len(dram_data) /\ t \in 1..t /\ IsFiniteSet(1..Len(dram_data))
    BY FS_Interval
  <2>2. WordsOf(i, Len(dram_data)) \subseteq 1..Len(dram_data)
    BY DEF WordsOf
  <2>3. QED
    BY <2>1, <2>2, FS_Subset DEF WordsOf
<1>4. WordsUpTo(i, t) \in Nat \ {0} /\ WordsUpTo(i, t) <= Cardinality(WordsOf(i, Len(dram_data)))
      /\ Cardinality(WordsOf(i, Len(dram_data))) \in Nat
  BY <1>3, FS_Subset, FS_EmptySet, FS_CardinalityType DEF WordsUpTo
<1>5. Cardinality(WordsOf(i, Len(dram_data))) = WordsExpected(i)
  BY <1>1, <1>2 DEF BInv, FileInv
<1>6. file[i + 1].kind = "D" /\ WordsUpTo(i, t) <= Len(file[i + 1].elements)
  BY <1>4, <1>5 DEF WordsExpected
<1>7. i + 1 \in 1..Len(file) /\ file[i + 1].elements \in Seq(Element)
  BY <1>1, <1>2, <1>6, LineTypes DEF IsNetwork
<1>8. PICK j \in 1..Len(file[i + 1].elements) : j = WordsUpTo(i, t)
  BY <1>4, <1>6, <1>7
<1> DEFINE e == file[i + 1].elements[j]
<1>9. e \in Element
  BY <1>7
<1>10. IsWordOf(dram_data[t], e)
  BY <1>8 DEF BInv, FileInv, WordsAreElements, WordsUpTo
<1>11. AsParameter(e.weight) = e.weight
  BY <1>6, <1>7 DEF BInv, RunFits, InputsFit, ParametersFit, LinesOfKind
<1>12. e.prime \in 0..i - 1 /\ e.sub \in 0..i - 1
  <2>1. e.prime < (i + 1) - 1 /\ e.sub < (i + 1) - 1
    BY <1>1, <1>6, <1>7 DEF IsNetwork, ChildrenBeforeParents
  <2>2. e.prime \in Nat /\ e.sub \in Nat
    BY <1>9 DEF Element
  <2> HIDE DEF e
  <2>3. QED
    BY <1>2, <2>1, <2>2
<1>13. IsElementWord(dram_data[t], e)
  BY <1>10, <1>11 DEF IsWordOf, IsElementWord
<1>14. QED
  BY <1>2, <1>6, <1>7, <1>8, <1>10, <1>12, <1>13 DEF IsWordOf

-----------------------------------------------------------------------------
(***************************************************************************)
(* The cache.  A write of the decision loop is the maximum over the        *)
(* elements whose words have come so far: of the node being computed in    *)
(* max_prob, of the writes on their way in inflight, and of all others in  *)
(* the cache, as far as the words go whose writes have landed.             *)
(***************************************************************************)
IsPartialMax(i, t, v) == IsMaxOf(file[i + 1].elements, WordsUpTo(i, t), Value, v)

Landed == IF inflight = <<>> THEN n ELSE Head(inflight).slot

ResultInv == /\ Len(result) = m /\ \E S : result \in Seq(S)
             /\ comp # "done" => m < NUM_QUERIES

\* The copies of the vectors, which are full but for the last parameters.
ParamInv ==
  comp # "load" => /\ local_literal_vector = literals /\ local_top_vector = tops
                   /\ \A k \in 1..Len(bool_params) :
                        local_bool_param_vector[k] = AsBoolParam(bool_params[k])

\* The values of the literals, then of the true nodes, are written once for a query.
LeafInv ==
  /\ DOMAIN evaluation_cache = 0..header.PSDD_SIZE - 1
  /\ \A i \in 0..Len(file) - 1 :
       \/ comp \in {"top", "decision"} /\ file[i + 1].kind = "L"
       \/ comp = "decision" /\ file[i + 1].kind = "T"
       => evaluation_cache[i] = Value[i]

MaxInv == comp = "decision" => IsPartialMax(cur_node_idx, n, max_prob)

WritesInv ==
  /\ \A k \in 1..Len(inflight) :
       IsPartialMax(inflight[k].node, inflight[k].slot + 1, inflight[k].value)
  /\ comp = "decision" => \A t \in Landed + 1..n : DoComp(dram_data[t]) =>
       \E k \in 1..Len(inflight) : inflight[k].slot = t - 1

LandedInv ==
  comp = "decision" => \A t \in 1..Landed : DoComp(dram_data[t]) =>
    IsPartialMax(slot_node[t], Landed, evaluation_cache[slot_node[t]])

SInv == /\ BInv /\ ResultInv /\ ParamInv /\ LeafInv
        /\ MaxInv /\ WritesInv /\ LandedInv

\* The query whose value is asked for is one of those given.
LEMMA QueryIsOne ==
  ASSUME BInv PROVE \E q \in 1..Len(instantiations) : instantiations[q] = Kernel!Query(m)
<1>1. PICK k \in Nat \ {0} : k = Len(instantiations)
  BY DEF BInv, RunFits, InputsFit, QueriesFit
<1>2. m \in Nat
  BY DEF BInv, KInv, CounterInv
<1>3. (m % k) + 1 \in 1..k
  BY <1>1, <1>2
<1>4. QED
  BY <1>1, <1>3 DEF Kernel!Query

\* So it is one of those that fit the network.
LEMMA QueryFits ==
  ASSUME BInv, NEW i \in 1..Len(file), file[i].kind = "D"
  PROVE  OneNonzero(file[i].elements, Value)
<1>1. PICK q \in 1..Len(instantiations) : instantiations[q] = Kernel!Query(m)
  BY QueryIsOne
<1>2. Deterministic(file, Kernel!Query(m))
  BY <1>1 DEF BInv, RunFits, InputsFit, QueriesFit
<1>3. QED
  BY <1>2 DEF Deterministic, OneNonzero, Value

\* The reference value of each kind of line.
LEMMA ValueOfLine ==
  ASSUME BInv, host = "launched", NEW i \in 0..Len(file) - 1
  PROVE  LET l == file[i + 1] IN
         /\ l \in Line
         /\ l.kind = "L" => Value[i] = LiteralValue(l, Kernel!Query(m))
         /\ l.kind = "T" => Value[i] = IF Kernel!Query(m)[l.var] THEN l.pos ELSE l.neg
         /\ l.kind = "D" => Value[i] = SumOf(l.elements, Value)
<1> DEFINE l == file[i + 1]
<1>1. IsNetwork(file) /\ Len(file) \in Nat
  BY NetworkIsRead
<1>2. l \in Line
  BY <1>1 DEF IsNetwork
<1>3. PICK inst : inst = Kernel!Query(m)
  OBVIOUS
<1>4. Value[i] = LineValue(l, inst, Value)
  BY <1>1, <1>3, ReferenceUnfolds DEF Value
<1>5. l.kind \in {"L", "T", "D"}
  BY <1>2 DEF Line, LiteralLine, TopLine, DecisionLine
<1> HIDE DEF l
<1>6. /\ l.kind = "L" => LineValue(l, inst, Value) = LiteralValue(l, inst)
      /\ l.kind = "T" => LineValue(l, inst, Value) = IF inst[l.var] THEN l.pos ELSE l.neg
      /\ l.kind = "D" => LineValue(l, inst, Value) = SumOf(l.elements, Value)
  BY <1>5 DEF LineValue
<1>7. QED
  BY <1>2, <1>3, <1>4, <1>6 DEF l

\* How far the writes have landed.
LEMMA LandedType ==
  ASSUME IInv, CounterInv, InflightInv
  PROVE  Landed \in 0..n /\ n \in Nat
<1>1. n \in Nat /\ Loop \in Nat \ {0}
  BY LoopType DEF CounterInv
<1>2. CASE inflight = <<>>
  BY <1>1, <1>2 DEF Landed
<1>3. CASE inflight # <<>>
  <2>1. 1 \in 1..Len(inflight) /\ Head(inflight) = inflight[1]
    BY <1>3 DEF InflightInv
  <2>2. inflight[1].slot \in 0..n - 1
    BY <2>1 DEF InflightInv
  <2>3. QED
    BY <1>1, <1>3, <2>1, <2>2 DEF Landed
<1>4. QED
  BY <1>2, <1>3

\* A node all of whose words have been issued, and no write to which is on
\* its way, has its reference value in the cache.
LEMMA FinalValue ==
  ASSUME SInv, host = "launched", comp = "decision", NEW i \in 0..Len(file) - 1,
         \A t \in n + 1..Len(dram_data) : ~ (DoComp(dram_data[t]) /\ slot_node[t] = i),
         \A k \in 1..Len(inflight) : inflight[k].node # i
  PROVE  evaluation_cache[i] = Value[i]
<1> DEFINE l == file[i + 1]
<1>1. l \in Line /\ BInv
  BY ValueOfLine DEF SInv
<1>2. l.kind \in {"L", "T", "D"}
  BY <1>1 DEF Line, LiteralLine, TopLine, DecisionLine
<1>3. CASE l.kind \in {"L", "T"}
  BY <1>3 DEF SInv, LeafInv
<1>4. CASE l.kind = "D"
  <2>1. /\ IsNetwork(file) /\ Len(file) \in Nat \ {0} /\ current_index = Len(file)
        /\ Len(dram_data) = Loop /\ Loop \in Nat \ {0}
    BY <1>1, NetworkIsRead
  <2>2. Landed \in 0..n /\ n \in 0..Loop
    BY <1>1, LandedType DEF BInv, KInv, CounterInv
  <2>3. l.elements \in Seq(Element) /\ l.elements # <<>> /\ OneNonzero(l.elements, Value)
    <3>1. i + 1 \in 1..Len(file) /\ i + 1 \in LinesOf("D", current_index)
      BY <1>4, <2>1 DEF LinesOf
    <3>2. l.elements # <<>>
      BY <1>1, <3>1 DEF BInv, HInv, ElementsInv
    <3>3. QED
      BY <1>1, <1>4, <3>1, <3>2, QueryFits, LineTypes
  <2>4. WordsUpTo(i, Len(dram_data)) = Len(l.elements)
    BY <1>1, <1>4, <2>1 DEF BInv, FileInv, WordsExpected, WordsUpTo
  <2>5. \A t \in Landed + 1..Len(dram_data) : ~ (DoComp(dram_data[t]) /\ slot_node[t] = i)
    <3> SUFFICES ASSUME NEW t \in Landed + 1..Len(dram_data),
                        DoComp(dram_data[t]), slot_node[t] = i
                 PROVE  FALSE
      OBVIOUS
    <3>1. t \in Landed + 1..n
      BY <2>1, <2>2
    <3>2. PICK k \in 1..Len(inflight) : inflight[k].slot = t - 1
      BY <3>1 DEF SInv, WritesInv
    <3>3. inflight[k].node = slot_node[inflight[k].slot + 1]
      BY <1>1 DEF BInv, KInv, InflightInv
    <3>4. (t - 1) + 1 = t
      BY <2>2
    <3>5. QED
      BY <3>2, <3>3, <3>4
  <2>6. PICK t \in 1..Landed : DoComp(dram_data[t]) /\ slot_node[t] = i
    <3>1. Len(l.elements) # 0
      BY <2>3
    <3>2. WordsOf(i, Len(dram_data)) # {}
      BY <2>4, <3>1, FS_EmptySet DEF WordsUpTo
    <3>3. PICK t \in 1..Len(dram_data) : DoComp(dram_data[t]) /\ slot_node[t] = i
      BY <3>2 DEF WordsOf
    <3>4. t \in 1..Landed
      BY <2>1, <2>2, <2>5, <3>3
    <3>5. QED
      BY <3>3, <3>4
  <2>7. WordsUpTo(i, Landed) = Len(l.elements)
    BY <2>1, <2>2, <2>4, <2>5, SameWordsUpTo
  <2>8. IsPartialMax(i, Landed, evaluation_cache[i])
    BY <2>6 DEF SInv, LandedInv
  <2>9. IsMaxOf(l.elements, Len(l.elements), Value, evaluation_cache[i])
    BY <2>7, <2>8 DEF IsPartialMax
  <2>10. evaluation_cache[i] = SumOf(l.elements, Value)
    BY <2>3, <2>9, FullMax
  <2>11. QED
    BY <1>1, <1>4, <2>10, ValueOfLine
<1>5. QED
  BY <1>2, <1>3, <1>4

-----------------------------------------------------------------------------
(* The invariant is preserved. *)

\* Before the launch the kernel is as it starts.
LEMMA HostStepKeepsSInv == ASSUME SInv, HostStep PROVE SInv'
<1>1. /\ BuildStep /\ UNCHANGED kernelVars /\ UNCHANGED instantiations
      /\ host = "reading" /\ UNCHANGED <<file, header>>
  BY DEF HostStep, BuildStep, ReadLiteral, ReadTop, InsertBubble, PlaceEdge,
         AtEdge, Reading, Crash, Finish
<1>2. KInv /\ IInv /\ comp = "load" /\ inflight = <<>>
  BY <1>1 DEF SInv, BInv, KInv, LaunchInv
<1>3. KInv'
  BY <1>2, HostStepKeepsKInv
<1>4. FileInv' /\ FinishInv' /\ HInv'
  BY <1>1, <1>2, StepKeepsFile, StepKeepsHInv DEF SInv, BInv, Next, RunFits, InputsFit
<1>5. RunFits'
  BY <1>1 DEF SInv, BInv, RunFits
<1>6. comp' = "load" /\ inflight' = <<>> /\ result' = result /\ m' = m
      /\ evaluation_cache' = evaluation_cache
  BY <1>1, <1>2 DEF kernelVars
<1>7. ResultInv' /\ ParamInv' /\ LeafInv'
  BY <1>1, <1>2, <1>6 DEF SInv, ResultInv, ParamInv, LeafInv
<1>8. MaxInv' /\ WritesInv' /\ LandedInv'
  BY <1>6 DEF MaxInv, WritesInv, LandedInv
<1>9. QED
  BY <1>3, <1>4, <1>5, <1>7, <1>8 DEF SInv, BInv

\* The kernel leaves the network, the stream and the vectors alone.
LEMMA KernelKeepsBInv ==
  ASSUME BInv, KernelStep
  PROVE  BInv' /\ UNCHANGED <<file, header, dram_data, slot_node, instantiations>>
<1>1. UNCHANGED hostVars /\ UNCHANGED instantiations
  BY DEF KernelStep
<1>2. KInv'
  BY StepKeepsKInv DEF BInv, RunNext
<1>3. FileInv' /\ FinishInv' /\ HInv'
  BY <1>1, StepKeepsFile, StepKeepsHInv DEF BInv, KInv, RunFits, InputsFit
<1>4. UNCHANGED <<file, header, dram_data, slot_node>>
  BY <1>1 DEF hostVars
<1>5. RunFits'
  BY <1>1, <1>4 DEF BInv, RunFits
<1>6. QED
  BY <1>1, <1>2, <1>3, <1>4, <1>5 DEF BInv

\* Within a query, values and partial maxima mean the same before and after a step.
LEMMA SameValues ==
  ASSUME UNCHANGED <<file, dram_data, slot_node, instantiations, m>>
  PROVE  /\ Value' = Value /\ Kernel!Query(m)' = Kernel!Query(m)
         /\ \A i, t : WordsUpTo(i, t)' = WordsUpTo(i, t)
         /\ \A i, t, v : IsPartialMax(i, t, v)' <=> IsPartialMax(i, t, v)
<1>1. Kernel!Query(m)' = Kernel!Query(m)
  BY DEF Kernel!Query
<1>2. Value' = Value
  BY <1>1 DEF Value
<1>3. \A i, t : WordsOf(i, t)' = WordsOf(i, t)
  BY DEF WordsOf
<1>4. \A i, t : WordsUpTo(i, t)' = WordsUpTo(i, t)
  BY <1>3 DEF WordsUpTo
<1>5. \A i, t, v : IsPartialMax(i, t, v)' <=> IsPartialMax(i, t, v)
  BY <1>2, <1>4 DEF IsPartialMax
<1>6. QED
  BY <1>1, <1>2, <1>4, <1>5

\* Nor do the vectors change once they are copied.
LEMMA SameParams ==
  ASSUME ParamInv, comp' # "load" => comp # "load",
         UNCHANGED <<literals, tops, bool_params, Kernel!localVars>>
  PROVE  ParamInv'
  BY DEF ParamInv, Kernel!localVars

\* The reader of the stream touches nothing the values depend on.
LEMMA DramReadKeepsSInv == ASSUME SInv, KernelStep, Kernel!DramRead PROVE SInv'
<1>1. /\ BInv' /\ UNCHANGED <<file, header, dram_data, slot_node, instantiations>>
      /\ UNCHANGED <<literals, tops, bool_params>>
  BY KernelKeepsBInv DEF SInv, KernelStep, hostVars
<1>2. UNCHANGED <<comp, m, n, cur_node_idx, max_prob, Kernel!localVars,
                  evaluation_cache, inflight, result>>
  BY DEF Kernel!DramRead
<1>3. /\ Value' = Value
      /\ \A i, t, v : IsPartialMax(i, t, v)' <=> IsPartialMax(i, t, v)
  BY <1>1, <1>2, SameValues
<1>4. Landed' = Landed
  BY <1>2 DEF Landed
<1>5. ResultInv' /\ ParamInv' /\ LeafInv'
  BY <1>1, <1>2, <1>3, SameParams DEF SInv, ResultInv, LeafInv
<1>6. MaxInv' /\ WritesInv' /\ LandedInv'
  BY <1>1, <1>2, <1>3, <1>4 DEF SInv, MaxInv, WritesInv, LandedInv
<1>7. QED
  BY <1>1, <1>5, <1>6 DEF SInv

\* A copy of a full vector is the vector; of one with room behind, the same so far.
LEMMA FilledCopy ==
  ASSUME NEW S, NEW vector \in Seq(S), NEW size \in Nat, Len(vector) <= size,
         NEW contents, NEW copy \in Kernel!Filled(vector, size, contents)
  PROVE  /\ \A k \in 1..Len(vector) : copy[k] = vector[k]
         /\ size = Len(vector) => copy = vector
<1>1. PICK rest : copy = [i \in 1..size |-> IF i <= Len(vector) THEN vector[i] ELSE rest[i]]
  BY DEF Kernel!Filled
<1>2. \A k \in 1..Len(vector) : k \in 1..size /\ k <= Len(vector)
  OBVIOUS
<1>3. \A k \in 1..Len(vector) : copy[k] = vector[k]
  BY <1>1, <1>2
<1>4. ASSUME size = Len(vector) PROVE copy = vector
  <2>1. DOMAIN copy = 1..Len(vector) /\ copy = [i \in 1..Len(vector) |-> copy[i]]
    BY <1>1, <1>4
  <2>2. vector = [i \in 1..Len(vector) |-> vector[i]]
    OBVIOUS
  <2>3. QED
    BY <1>3, <2>1, <2>2
<1>5. QED
  BY <1>3, <1>4

\* The vectors the host passes cover the whole file, and the header counts them.
LEMMA WholeVectors ==
  ASSUME BInv, host = "launched"
  PROVE  /\ header.TOTAL_LITERALS = Len(literals) /\ Len(literals) \in Nat
         /\ header.TOTAL_VARIABLE_INDEXES = Len(tops) /\ Len(tops) \in Nat
         /\ Len(bool_params) = AtMost(2 * Len(tops), header.TOTAL_BOOL_PARAM)
         /\ \A kind : LinesOf(kind, current_index) = LinesOfKind(file, kind)
<1>1. current_index = Len(file)
  BY NetworkIsRead
<1>2. \A kind : LinesOf(kind, current_index) = LinesOfKind(file, kind)
  BY <1>1 DEF LinesOf, LinesOfKind
<1>3. /\ header.TOTAL_LITERALS = Len(literals) /\ header.TOTAL_VARIABLE_INDEXES = Len(tops)
      /\ Len(bool_params) = AtMost(2 * Len(tops), header.TOTAL_BOOL_PARAM)
  BY <1>2 DEF BInv, HInv, LiteralsInv, TopsInv, RunFits, InputsFit, HeaderFits
<1>4. Len(literals) \in Nat /\ Len(tops) \in Nat
  BY DEF BInv, KInv, IInv, TypeOK
<1>5. QED
  BY <1>2, <1>3, <1>4

LEMMA LoadKeepsSInv == ASSUME SInv, KernelStep, Kernel!Load PROVE SInv'
<1>1. /\ BInv' /\ UNCHANGED <<file, header, dram_data, slot_node, instantiations>>
      /\ UNCHANGED <<literals, tops, bool_params>>
  BY KernelKeepsBInv DEF SInv, KernelStep, hostVars
<1> DEFINE cut == [i \in 1..Len(bool_params) |-> Kernel!AsBoolParam(bool_params[i])]
           size == IF header.TOTAL_BOOL_PARAM <= header.TOTAL_VARIABLE_INDEXES
                     THEN header.TOTAL_VARIABLE_INDEXES + 1 ELSE header.TOTAL_BOOL_PARAM
<1>2. /\ comp = "load" /\ comp' = "literals"
      /\ UNCHANGED <<m, evaluation_cache, inflight, result>>
  BY DEF Kernel!Load
<1>21. /\ local_literal_vector' \in Kernel!Filled(literals, header.TOTAL_LITERALS, UnsetEntries)
       /\ local_top_vector' \in
            Kernel!Filled(tops, header.TOTAL_VARIABLE_INDEXES, UnsetEntries)
       /\ local_bool_param_vector' \in Kernel!Filled(cut, size, UnsetParameters)
  BY DEF Kernel!Load, Kernel!TopsLen
<1>3. inflight = <<>> /\ inflight' = <<>>
  BY <1>2 DEF SInv, BInv, KInv, InflightInv
<1>4. \A x : Kernel!AsBoolParam(x) = AsBoolParam(x)
  BY Zenon DEF Kernel!AsBoolParam, AsBoolParam, Kernel!Signed, Signed
<1>41. /\ literals \in Seq([var : Nat, sign : BOOLEAN, index : Nat])
       /\ tops \in Seq([var : Nat, index : Nat])
       /\ bool_params \in Seq(Int) /\ Len(bool_params) <= header.TOTAL_BOOL_PARAM
       /\ header.TOTAL_BOOL_PARAM \in Nat /\ header.TOTAL_VARIABLE_INDEXES \in Nat
       /\ header.TOTAL_LITERALS = Len(literals) /\ header.TOTAL_VARIABLE_INDEXES = Len(tops)
  BY WholeVectors DEF SInv, BInv, KInv, IInv, TypeOK, Header, KernelStep
<1>42. local_literal_vector' = literals /\ local_top_vector' = tops
  <2>1. PICK l \in Nat, k \in Nat : l = Len(literals) /\ k = Len(tops)
    BY <1>41
  <2>2. /\ Len(literals) <= header.TOTAL_LITERALS /\ header.TOTAL_LITERALS \in Nat
        /\ Len(tops) <= header.TOTAL_VARIABLE_INDEXES
    BY <1>41, <2>1
  <2>3. local_literal_vector' = literals
    BY <1>21, <1>41, <2>2, FilledCopy
  <2>4. local_top_vector' = tops
    BY <1>21, <1>41, <2>2, FilledCopy
  <2>5. QED
    BY <2>3, <2>4
<1>43. ASSUME NEW k \in 1..Len(bool_params)
       PROVE  local_bool_param_vector'[k] = AsBoolParam(bool_params[k])
  <2>1. PICK l \in Nat : l = Len(bool_params)
    BY <1>41
  <2>2. cut \in Seq({cut[i] : i \in 1..l}) /\ Len(cut) = l /\ cut[k] = AsBoolParam(bool_params[k])
    BY <1>4, <2>1
  <2>3. size \in Nat /\ l <= size
    BY <1>41, <2>1
  <2> HIDE DEF cut, size
  <2>31. Len(cut) <= size /\ k \in 1..Len(cut)
    BY <2>1, <2>2, <2>3
  <2>4. local_bool_param_vector'[k] = cut[k]
    BY <1>21, <2>2, <2>3, <2>31, FilledCopy
  <2>5. QED
    BY <2>2, <2>4
<1>5. ParamInv'
  BY <1>1, <1>42, <1>43 DEF ParamInv
<1>6. ResultInv' /\ LeafInv'
  BY <1>1, <1>2 DEF SInv, ResultInv, LeafInv
<1>7. MaxInv' /\ WritesInv' /\ LandedInv'
  BY <1>2, <1>3 DEF MaxInv, WritesInv, LandedInv
<1>8. QED
  BY <1>1, <1>5, <1>6, <1>7 DEF SInv

\* A set of positions has a last one.
LEMMA LastIn ==
  ASSUME NEW l \in Nat, NEW S \in SUBSET (1..l), S # {}
  PROVE  Kernel!Last(S) \in S
<1> DEFINE T == {y \in 0..l : l - y \in S}
<1>1. PICK x : x \in S
  OBVIOUS
<1>2. x \in 1..l /\ l - x \in T
  <2>1. x \in 1..l /\ l - x \in 0..l /\ l - (l - x) = x
    BY <1>1
  <2>2. QED
    BY <1>1, <2>1
<1>3. T \in SUBSET Nat /\ T # {}
  <2>1. \A y \in T : y \in Nat
    OBVIOUS
  <2>2. QED
    BY <1>2, <2>1, Zenon
<1> HIDE DEF T
<1>4. PICK y \in T : \A z \in T : y <= z
  BY <1>3, LeastOf
<1>5. l - y \in S /\ y \in 0..l
  BY <1>4 DEF T
<1>6. \A k \in S : k <= l - y
  <2> SUFFICES ASSUME NEW k \in S PROVE k <= l - y
    OBVIOUS
  <2>1. k \in 1..l /\ l - k \in 0..l /\ l - (l - k) = k
    OBVIOUS
  <2>2. l - k \in T
    BY <2>1 DEF T
  <2>3. y <= l - k
    BY <1>4, <2>2
  <2>4. QED
    BY <1>5, <2>1, <2>3
<1>7. \E k \in S : \A j \in S : j <= k
  BY <1>5, <1>6
<1>8. QED
  BY <1>7, Zenon DEF Kernel!Last

\* A number of a line that the kernel cuts to 20 bits is that of the line.
LEMMA LineNumberFits ==
  ASSUME BInv, host = "launched", NEW i \in 1..Len(file)
  PROVE  Kernel!AsIndex(i - 1) = i - 1
<1>1. Len(file) \in Nat /\ header.PSDD_SIZE = Len(file) /\ IInv
  BY NetworkIsRead DEF BInv, KInv
<1>2. i - 1 \in Nat /\ i - 1 < header.PSDD_SIZE
  BY <1>1
<1>3. AsIndex(i - 1) = i - 1
  BY <1>1, <1>2, IndexFits
<1>4. Kernel!IndexRange = IndexRange
  BY SMT DEF Kernel!IndexRange, IndexRange
<1>5. QED
  BY <1>3, <1>4, Zenon DEF Kernel!AsIndex, AsIndex

\* The literal loop writes the value of every literal, and no other entry.
LEMMA LiteralsKeepsSInv == ASSUME SInv, KernelStep, Kernel!Literals PROVE SInv'
<1>1. /\ BInv' /\ UNCHANGED <<file, header, dram_data, slot_node, instantiations>>
      /\ UNCHANGED <<literals, tops, bool_params>>
  BY KernelKeepsBInv DEF SInv, KernelStep, hostVars
<1>2. /\ comp = "literals" /\ comp' = "top"
      /\ UNCHANGED <<m, inflight, result, Kernel!localVars>>
      /\ evaluation_cache' =
           [i \in Kernel!Nodes |->
              IF Kernel!LiteralAt(i) = {} THEN evaluation_cache[i]
              ELSE Kernel!LiteralValue(local_literal_vector[Kernel!Last(Kernel!LiteralAt(i))],
                                       Kernel!Query(m))]
  BY DEF Kernel!Literals
<1>3. /\ IsNetwork(file) /\ Len(file) \in Nat \ {0} /\ header.PSDD_SIZE = Len(file)
      /\ current_index = Len(file) /\ host = "launched" /\ BInv
      /\ local_literal_vector = literals
  BY <1>2, NetworkIsRead DEF SInv, ParamInv, KernelStep
<1>4. Value' = Value
  BY <1>1, <1>2, SameValues
<1>5. Kernel!Nodes = 0..header.PSDD_SIZE - 1
  BY DEF Kernel!Nodes
<1>51. PICK l \in Nat : l = Len(literals) /\ l = header.TOTAL_LITERALS
  BY <1>3, WholeVectors
<1>52. ASSUME NEW k \in 1..l
       PROVE  \E j \in LinesOf("L", current_index) :
                /\ IsLiteralOf(literals[k], file[j], j)
                /\ literals[k].index = j - 1 /\ Kernel!AsIndex(literals[k].index) = j - 1
  <2>1. PICK j \in LinesOf("L", current_index) : IsLiteralOf(literals[k], file[j], j)
    BY <1>3, <1>51 DEF BInv, HInv, LiteralsInv
  <2>2. literals[k].index = j - 1 /\ j \in 1..Len(file)
    BY <1>3, <2>1 DEF IsLiteralOf, LinesOf
  <2>3. Kernel!AsIndex(j - 1) = j - 1
    BY <1>3, <2>2, LineNumberFits
  <2>4. QED
    BY <2>1, <2>2, <2>3
<1>53. \A i, k : k \in Kernel!LiteralAt(i) <=> k \in 1..l /\ literals[k].index = i
  <2>1. \A i : Kernel!LiteralAt(i) = {k \in 1..l : Kernel!AsIndex(literals[k].index) = i}
    BY <1>3, <1>51 DEF Kernel!LiteralAt
  <2>2. \A k \in 1..l : Kernel!AsIndex(literals[k].index) = literals[k].index
    BY <1>52
  <2>3. QED
    BY <2>1, <2>2
<1>6. ASSUME NEW i \in 0..Len(file) - 1, file[i + 1].kind = "L"
      PROVE  evaluation_cache'[i] = Value[i]
  <2>2. i + 1 \in LinesOf("L", current_index) /\ (i + 1) - 1 = i
    BY <1>3, <1>6 DEF LinesOf
  <2>3. \E k : k \in Kernel!LiteralAt(i)
    BY <1>3, <1>51, <1>53, <2>2 DEF BInv, HInv, LiteralsInv
  <2>4. PICK k : k = Kernel!Last(Kernel!LiteralAt(i))
    OBVIOUS
  <2>5. k \in Kernel!LiteralAt(i)
    <3>1. Kernel!LiteralAt(i) \in SUBSET (1..l) /\ Kernel!LiteralAt(i) # {}
      BY <1>53, <2>3
    <3>2. QED
      BY <2>4, <3>1, LastIn
  <2>6. PICK j \in LinesOf("L", current_index) :
          IsLiteralOf(literals[k], file[j], j) /\ literals[k].index = j - 1
    BY <1>52, <1>53, <2>5
  <2>7. j \in Int /\ literals[k].index = i
    BY <1>53, <2>5 DEF LinesOf
  <2>8. j = i + 1
    BY <2>6, <2>7
  <2>9. literals[k].var = file[i + 1].var /\ literals[k].sign = file[i + 1].sign
    BY <2>6, <2>8 DEF IsLiteralOf
  <2>10. evaluation_cache'[i] = Kernel!LiteralValue(literals[k], Kernel!Query(m))
    <3>1. i \in Kernel!Nodes /\ Kernel!LiteralAt(i) # {}
      BY <1>3, <1>5, <2>3
    <3>2. QED
      BY <1>2, <1>3, <2>4, <3>1
  <2>11. Kernel!LiteralValue(literals[k], Kernel!Query(m))
           = LiteralValue(file[i + 1], Kernel!Query(m))
    BY <2>9 DEF Kernel!LiteralValue, LiteralValue
  <2>12. QED
    BY <1>3, <1>6, <2>10, <2>11, ValueOfLine
<1>7. LeafInv'
  <2>1. DOMAIN evaluation_cache' = 0..header.PSDD_SIZE - 1
    BY <1>2, <1>5
  <2>2. QED
    BY <1>1, <1>2, <1>4, <1>6, <2>1 DEF LeafInv
<1>8. ResultInv' /\ ParamInv'
  BY <1>1, <1>2, SameParams DEF SInv, ResultInv
<1>9. inflight' = <<>>
  BY <1>2 DEF SInv, BInv, KInv, InflightInv
<1>10. MaxInv' /\ WritesInv' /\ LandedInv'
  BY <1>2, <1>9 DEF MaxInv, WritesInv, LandedInv
<1>11. QED
  BY <1>1, <1>7, <1>8, <1>10 DEF SInv

\* At the first word nothing has been computed.
LEMMA NoWordsYet ==
  ASSUME NEW i, NEW v, v = NegInf
  PROVE  WordsUpTo(i, 0) = 0 /\ IsPartialMax(i, 0, v)
<1>1. WordsOf(i, 0) = {} /\ 1..0 = {}
  BY DEF WordsOf
<1>2. WordsUpTo(i, 0) = 0
  BY <1>1, FS_EmptySet DEF WordsUpTo
<1>3. QED
  BY <1>1, <1>2 DEF IsPartialMax, IsMaxOf

\* The entries of the vector of true nodes, all of them read.
LEMMA EntryOfTop ==
  ASSUME BInv, host = "launched", NEW k \in 1..Len(tops)
  PROVE  \E i \in LinesOfKind(file, "T") :
           /\ i \in 1..Len(file) /\ file[i].kind = "T"
           /\ tops[k].var = file[i].var
           /\ tops[k].index = i - 1 /\ Kernel!AsIndex(tops[k].index) = i - 1
           /\ HasParameters(bool_params, k, file[i])
           /\ k = TopNumber(file, i)
<1>1. current_index = Len(file) /\ Len(file) \in Nat
  BY NetworkIsRead
<1>2. PICK i \in LinesOf("T", current_index) :
        IsTopOf(tops[k], file[i], i) /\ HasParameters(bool_params, k, file[i]) /\ IsTopNumber(k, i)
  BY DEF BInv, HInv, TopsInv
<1>3. i \in 1..Len(file) /\ file[i].kind = "T" /\ i \in LinesOfKind(file, "T")
  BY <1>1, <1>2 DEF LinesOf, LinesOfKind
<1>4. tops[k].var = file[i].var /\ tops[k].index = i - 1
  BY <1>2 DEF IsTopOf
<1>5. Kernel!AsIndex(i - 1) = i - 1
  BY <1>3, LineNumberFits
<1>6. {j \in LinesOfKind(file, "T") : j <= i} = LinesOf("T", i)
  BY <1>1, <1>3 DEF LinesOf, LinesOfKind
<1>7. k = TopNumber(file, i)
  BY <1>2, <1>6 DEF TopNumber, IsTopNumber
<1>8. QED
  BY <1>2, <1>3, <1>4, <1>5, <1>7

\* A parameter the kernel may take is in the vector, and is that of the file.
LEMMA EntryIsParameter ==
  ASSUME BInv, host = "launched", NEW k, k <= header.TOTAL_BOOL_PARAM,
         NEW x, IsEntry(file, k, x)
  PROVE  k \in 1..Len(bool_params) /\ AsBoolParam(bool_params[k]) = x
<1>1. PICK i \in LinesOfKind(file, "T") :
        \/ k = 2 * TopNumber(file, i) - 1 /\ file[i].pos = x
        \/ k = 2 * TopNumber(file, i) /\ file[i].neg = x
  BY DEF IsEntry
<1>2. i \in LinesOf("T", current_index) /\ i \in Int
  BY WholeVectors DEF LinesOfKind
<1>3. PICK j \in 1..Len(tops) : tops[j].index = i - 1
  BY <1>2 DEF BInv, HInv, TopsInv
<1>4. PICK p \in LinesOfKind(file, "T") :
        tops[j].index = p - 1 /\ HasParameters(bool_params, j, file[p]) /\ j = TopNumber(file, p)
  BY EntryOfTop
<1>5. p = i
  BY <1>2, <1>3, <1>4 DEF LinesOfKind
<1>6. PICK l, room \in Nat : l = Len(tops) /\ room = header.TOTAL_BOOL_PARAM
  BY WholeVectors DEF BInv, KInv, IInv, TypeOK, Header
<1>7. j \in 1..l /\ Len(bool_params) = AtMost(2 * l, room)
  BY <1>6, WholeVectors
<1>8. AsBoolParam(file[i].pos) = file[i].pos /\ AsBoolParam(file[i].neg) = file[i].neg
  BY DEF BInv, RunFits, InputsFit, ParametersFit
<1>9. CASE k = 2 * TopNumber(file, i) - 1 /\ file[i].pos = x
  <2>1. k = 2 * j - 1 /\ k <= room
    BY <1>4, <1>5, <1>6, <1>9
  <2>2. k \in 1..AtMost(2 * l, room)
    BY <1>7, <2>1 DEF AtMost
  <2>3. k \in 1..Len(bool_params) /\ 2 * j - 1 <= Len(bool_params)
    BY <1>6, <1>7, <2>1, <2>2 DEF AtMost
  <2>4. bool_params[2 * j - 1] = AsBoolParam(file[i].pos)
    BY <1>4, <1>5, <2>3 DEF HasParameters
  <2>5. QED
    BY <1>8, <1>9, <2>1, <2>3, <2>4
<1>10. CASE k = 2 * TopNumber(file, i) /\ file[i].neg = x
  <2>1. k = 2 * j /\ k <= room
    BY <1>4, <1>5, <1>6, <1>10
  <2>2. k \in 1..AtMost(2 * l, room)
    BY <1>7, <2>1 DEF AtMost
  <2>3. k \in 1..Len(bool_params) /\ 2 * j <= Len(bool_params)
    BY <1>6, <1>7, <2>1, <2>2 DEF AtMost
  <2>4. bool_params[2 * j] = AsBoolParam(file[i].neg)
    BY <1>4, <1>5, <2>3 DEF HasParameters
  <2>5. QED
    BY <1>8, <1>10, <2>1, <2>3, <2>4
<1>11. QED
  BY <1>1, <1>9, <1>10

\* The loop over the true nodes takes the right parameter of each.
LEMMA TopsKeepsSInv == ASSUME SInv, KernelStep, Kernel!Tops PROVE SInv'
<1>1. /\ BInv' /\ UNCHANGED <<file, header, dram_data, slot_node, instantiations>>
      /\ UNCHANGED <<literals, tops, bool_params>>
  BY KernelKeepsBInv DEF SInv, KernelStep, hostVars
<1>2. /\ comp = "top" /\ comp' = "decision"
      /\ n' = 0 /\ cur_node_idx' = 0 /\ max_prob' = NegInf
      /\ UNCHANGED <<m, inflight, result, Kernel!localVars>>
      /\ evaluation_cache' =
           [i \in Kernel!Nodes |->
              IF Kernel!TopAt(i) = {} THEN evaluation_cache[i]
              ELSE Kernel!TopValue(Kernel!Last(Kernel!TopAt(i)))]
  BY DEF Kernel!Tops
<1>3. /\ IsNetwork(file) /\ Len(file) \in Nat \ {0} /\ header.PSDD_SIZE = Len(file)
      /\ current_index = Len(file) /\ host = "launched" /\ BInv
      /\ local_top_vector = tops
      /\ \A k \in 1..Len(bool_params) :
           local_bool_param_vector[k] = AsBoolParam(bool_params[k])
  BY <1>2, NetworkIsRead DEF SInv, ParamInv, KernelStep
<1>4. Value' = Value /\ \A i, t, v : IsPartialMax(i, t, v)' <=> IsPartialMax(i, t, v)
  BY <1>1, <1>2, SameValues
<1>5. Kernel!Nodes = 0..header.PSDD_SIZE - 1
  BY DEF Kernel!Nodes
<1>51. PICK size \in Nat : size = Len(tops) /\ size = header.TOTAL_VARIABLE_INDEXES
  BY <1>3, WholeVectors
<1>6. \A i, k : k \in Kernel!TopAt(i) <=> k \in 1..size /\ tops[k].index = i
  <2>1. \A i : Kernel!TopAt(i) = {k \in 1..size : Kernel!AsIndex(tops[k].index) = i}
    BY <1>3, <1>51 DEF Kernel!TopAt, Kernel!TopsLen
  <2>2. \A k \in 1..size : Kernel!AsIndex(tops[k].index) = tops[k].index
    BY <1>3, <1>51, EntryOfTop
  <2>3. QED
    BY <2>1, <2>2
<1>7. ASSUME NEW k \in 1..size, NEW i \in 0..Len(file) - 1, tops[k].index = i
      PROVE  /\ file[i + 1].kind = "T" /\ tops[k].var = file[i + 1].var
             /\ k = TopNumber(file, i + 1) /\ i + 1 \in LinesOfKind(file, "T")
  <2>1. PICK j \in LinesOfKind(file, "T") :
          /\ j \in 1..Len(file) /\ file[j].kind = "T" /\ tops[k].var = file[j].var
          /\ tops[k].index = j - 1 /\ k = TopNumber(file, j)
    BY <1>3, <1>51, EntryOfTop
  <2>2. j = i + 1
    BY <1>7, <2>1
  <2>3. QED
    BY <2>1, <2>2
<1>8. ASSUME NEW i \in 0..Len(file) - 1, file[i + 1].kind = "L"
      PROVE  evaluation_cache'[i] = Value[i]
  <2>1. Kernel!TopAt(i) = {}
    BY <1>6, <1>7, <1>8
  <2>2. evaluation_cache[i] = Value[i]
    BY <1>2, <1>8 DEF SInv, LeafInv
  <2>3. i \in Kernel!Nodes
    BY <1>3, <1>5
  <2>4. QED
    BY <1>2, <2>1, <2>2, <2>3
<1>9. ASSUME NEW i \in 0..Len(file) - 1, file[i + 1].kind = "T"
      PROVE  evaluation_cache'[i] = Value[i]
  <2> DEFINE l == file[i + 1]
             query == Kernel!Query(m)
             x == IF query[l.var] THEN l.pos ELSE l.neg
  <2>1. i + 1 \in LinesOf("T", current_index) /\ (i + 1) - 1 = i
    BY <1>3, <1>9 DEF LinesOf
  <2>2. \E k : k \in Kernel!TopAt(i)
    BY <1>3, <1>51, <1>6, <2>1 DEF BInv, HInv, TopsInv
  <2>3. PICK k : k = Kernel!Last(Kernel!TopAt(i))
    OBVIOUS
  <2>4. k \in Kernel!TopAt(i)
    <3>1. Kernel!TopAt(i) \in SUBSET (1..size) /\ Kernel!TopAt(i) # {}
      BY <1>6, <2>2
    <3>2. QED
      BY <2>3, <3>1, LastIn
  <2>5. /\ tops[k].var = l.var /\ k = TopNumber(file, i + 1)
        /\ i + 1 \in LinesOfKind(file, "T")
    BY <1>6, <1>7, <2>4
  <2>6. evaluation_cache'[i] = Kernel!TopValue(k)
    <3>1. i \in Kernel!Nodes /\ Kernel!TopAt(i) # {}
      BY <1>3, <1>5, <2>2
    <3>2. QED
      BY <1>2, <2>3, <3>1
  <2>7. PICK e : e = EntryTaken(file, i + 1, query)
    OBVIOUS
  <2>8. e <= header.TOTAL_BOOL_PARAM /\ IsEntry(file, e, x)
    <3>1. PICK q \in 1..Len(instantiations) : instantiations[q] = query
      BY <1>3, QueryIsOne
    <3>2. /\ EntryTaken(file, i + 1, instantiations[q]) <= header.TOTAL_BOOL_PARAM
          /\ IsEntry(file, EntryTaken(file, i + 1, instantiations[q]),
                     IF instantiations[q][file[i + 1].var] THEN file[i + 1].pos
                                                           ELSE file[i + 1].neg)
      BY <1>3, <2>5 DEF BInv, RunFits, InputsFit, ParametersAreTaken
    <3>3. QED
      BY <2>7, <3>1, <3>2
  <2>9. e \in 1..Len(bool_params) /\ AsBoolParam(bool_params[e]) = x
    BY <1>3, <2>8, EntryIsParameter
  <2>10. local_bool_param_vector[e] = x
    BY <1>3, <2>9
  <2>11. Kernel!TopValue(k) = local_bool_param_vector[e]
    BY <1>3, <2>5, <2>7 DEF Kernel!TopValue, EntryTaken
  <2>12. Value[i] = x
    BY <1>3, <1>9, ValueOfLine
  <2>13. QED
    BY <2>6, <2>10, <2>11, <2>12
<1>10. LeafInv'
  <2>1. DOMAIN evaluation_cache' = 0..header.PSDD_SIZE - 1
    BY <1>2, <1>5
  <2>2. QED
    BY <1>1, <1>2, <1>4, <1>8, <1>9, <2>1 DEF LeafInv
<1>11. ResultInv' /\ ParamInv'
  BY <1>1, <1>2, SameParams DEF SInv, ResultInv
<1>12. inflight' = <<>>
  BY <1>2 DEF SInv, BInv, KInv, InflightInv
<1>13. Landed' = 0
  BY <1>2, <1>12 DEF Landed
<1>14. MaxInv'
  BY <1>2, <1>4, NoWordsYet DEF MaxInv
<1>15. WritesInv' /\ LandedInv'
  BY <1>2, <1>12, <1>13 DEF WritesInv, LandedInv
<1>16. QED
  BY <1>1, <1>10, <1>11, <1>14, <1>15 DEF SInv

\* When a word is issued, the cache holds the values of its operands: all their
\* words are earlier ones, and no write to them is on its way.
LEMMA OperandValue ==
  ASSUME SInv, comp = "decision", n \in 0..Len(dram_data) - 1, Kernel!PipelineAdvances,
         DoComp(dram_data[n + 1]),
         NEW i \in {dram_data[n + 1].prime, dram_data[n + 1].sub}
  PROVE  evaluation_cache[i] = Value[i]
<1>1. BInv /\ KInv /\ IInv /\ CountInv /\ host = "launched"
  BY DEF SInv, BInv, KInv, LaunchInv
<1>2. Len(dram_data) = Loop /\ Loop \in Nat \ {0} /\ Len(file) \in Nat \ {0}
  BY <1>1, NetworkIsRead
<1>3. PICK t \in 1..Len(dram_data) : t = n + 1
  BY <1>2
<1>4. PICK c : c = slot_node[t]
  OBVIOUS
<1>5. c \in 0..Len(file) - 1 /\ i \in 0..c - 1
  BY <1>1, <1>3, <1>4, WordOfStream
<1>6. i \in 0..Len(file) - 1 /\ i < c
  BY <1>2, <1>5
<1>7. ASSUME NEW s \in n + 1..Len(dram_data), DoComp(dram_data[s]), slot_node[s] = i
      PROVE  FALSE
  <2>1. s \in 1..Len(dram_data) /\ t <= s
    BY <1>2, <1>3
  <2>2. c <= slot_node[s]
    BY <1>1, <1>4, <2>1, NodesInOrder
  <2>3. QED
    BY <1>5, <1>6, <1>7, <2>2
<1>8. n < Loop /\ IdsAreLines(file)
  BY <1>1, <1>2 DEF BInv, RunFits, InputsFit, IsNetwork
<1>9. \A k \in 1..Len(inflight) : inflight[k].node # i
  BY <1>1, <1>8, NoStaleReadInKInv, SameWords, LoopLenIsLoop
  DEF NoStaleRead, Kernel!NoStaleRead, Kernel!NextWord
<1>10. QED
  BY <1>1, <1>6, <1>7, <1>9, FinalValue

\* What the kernel computes with is what the reference computes with.
LEMMA SameArithmetic ==
  /\ \A a, b : Kernel!LogMul(a, b) = LogMul(a, b)
  /\ \A a, b : Kernel!LogMax(a, b) = LogMax(a, b)
<1>1. \A a, b : Kernel!LogMul(a, b) = LogMul(a, b)
  BY Zenon DEF Kernel!LogMul, LogMul
<1>2. \A a, b : Kernel!LogMax(a, b) = LogMax(a, b)
  BY Zenon DEF Kernel!LogMax, LogMax, Kernel!LogLess, LogLess
<1>3. QED
  BY <1>1, <1>2

\* The new maximum is that over the words of the node up to the one issued.
LEMMA MaxAfterWord ==
  ASSUME SInv, comp = "decision", n \in 0..Len(dram_data) - 1, Kernel!PipelineAdvances
  PROVE  IsPartialMax(cur_node_idx, n + 1, Kernel!NewMax(dram_data[n + 1]))
<1> DEFINE w == dram_data[n + 1]
           c == cur_node_idx
           p == max_prob
<1>1. BInv /\ KInv /\ IInv /\ host = "launched"
  BY DEF SInv, BInv, KInv, LaunchInv
<1>2. Len(dram_data) = Loop /\ Loop \in Nat \ {0} /\ Len(file) \in Nat \ {0}
  BY <1>1, NetworkIsRead
<1>3. slot_node[n + 1] = c
  BY <1>1, NodeOfNextWord
<1>4. IsMaxOf(file[c + 1].elements, WordsUpTo(c, n), Value, p)
  BY DEF SInv, MaxInv, IsPartialMax
<1>5. /\ WordsUpTo(c, n) \in Nat
      /\ WordsUpTo(c, n + 1) = IF DoComp(w) THEN WordsUpTo(c, n) + 1 ELSE WordsUpTo(c, n)
  BY <1>1, <1>3, WordsOfNext
<1>6. CASE DoComp(w)
  <2>1. PICK k \in Nat : k = WordsUpTo(c, n)
    BY <1>5
  <2>2. PICK els : els = file[c + 1].elements
    OBVIOUS
  <2>3. PICK t \in 1..Len(dram_data) : t = n + 1
    BY <1>2
  <2>4. /\ c \in 0..Len(file) - 1 /\ file[c + 1].kind = "D" /\ els \in Seq(Element)
        /\ WordsUpTo(c, t) \in 1..Len(els)
        /\ IsElementWord(w, els[WordsUpTo(c, t)])
    BY <1>1, <1>3, <1>6, <2>2, <2>3, WordOfStream
  <2>5. WordsUpTo(c, t) = k + 1
    BY <1>5, <1>6, <2>1, <2>3
  <2>6. k < Len(els)
    BY <2>1, <2>4, <2>5
  <2>7. OneNonzero(els, Value)
    <3>1. c + 1 \in 1..Len(file)
      BY <1>2, <2>4
    <3>2. QED
      BY <1>1, <2>2, <2>4, <3>1, QueryFits
  <2>8. evaluation_cache[w.prime] = Value[w.prime] /\ evaluation_cache[w.sub] = Value[w.sub]
    BY <1>6, OperandValue
  <2>9. Kernel!EdgeProb(w) = ElementValue(els[k + 1], Value)
    BY <2>4, <2>5, <2>8, SameArithmetic DEF Kernel!EdgeProb, ElementValue, IsElementWord
  <2>10. Kernel!NewMax(w) = LogMax(p, ElementValue(els[k + 1], Value))
    BY <1>6, <2>9, SameArithmetic, SameWords DEF Kernel!NewMax
  <2>11. IsMaxOf(els, k + 1, Value, LogMax(p, ElementValue(els[k + 1], Value)))
    <3>1. IsMaxOf(els, k, Value, p)
      BY <1>4, <2>1, <2>2
    <3> HIDE DEF p
    <3>2. QED
      BY <2>1, <2>4, <2>6, <2>7, <3>1, NextMax
  <2>12. IsMaxOf(file[c + 1].elements, WordsUpTo(c, n + 1), Value, Kernel!NewMax(w))
    BY <2>2, <2>3, <2>5, <2>10, <2>11
  <2>13. QED
    BY <2>12 DEF IsPartialMax
<1>7. CASE ~DoComp(w)
  <2>1. Kernel!NewMax(w) = p
    BY <1>7, SameWords DEF Kernel!NewMax
  <2>2. WordsUpTo(c, n + 1) = WordsUpTo(c, n)
    BY <1>5, <1>7
  <2>3. QED
    BY <1>4, <2>1, <2>2 DEF IsPartialMax
<1>8. QED
  BY <1>6, <1>7

LEMMA IssueKeepsSInv == ASSUME SInv, KernelStep, Kernel!Issue PROVE SInv'
<1> DEFINE w == dram_data[n + 1]
           c == cur_node_idx
           M == Kernel!NewMax(w)
<1>1. /\ BInv' /\ UNCHANGED <<file, header, dram_data, slot_node, instantiations>>
      /\ UNCHANGED <<literals, tops, bool_params>>
  BY KernelKeepsBInv DEF SInv, KernelStep, hostVars
<1>2. /\ BInv /\ KInv /\ IInv /\ CountInv /\ host = "launched"
      /\ Len(dram_data) = Loop /\ Loop \in Nat \ {0}
  BY NetworkIsRead DEF SInv, BInv, KInv, KernelStep
<1>3. /\ comp = "decision" /\ comp' = comp /\ n < Loop /\ n' = n + 1
      /\ dram_fifo # <<>> /\ Kernel!PipelineAdvances
      /\ UNCHANGED <<m, Kernel!localVars, evaluation_cache, result>>
  BY LoopLenIsLoop DEF Kernel!Issue
<1>4. n \in 0..Loop - 1 /\ n \in 0..Len(dram_data) - 1 /\ n + 1 \in 1..Len(dram_data)
  BY <1>2, <1>3 DEF KInv, CounterInv
<1>5. Head(dram_fifo) = w
  BY <1>2, <1>3, HeadIsNextWord
<1>6. /\ DoComp(w) => inflight' = Append(inflight, [slot |-> n, node |-> c, value |-> M])
      /\ ~DoComp(w) => inflight' = inflight
      /\ IncIdx(w) => max_prob' = NegInf /\ cur_node_idx' = c + 1
      /\ ~IncIdx(w) => max_prob' = M /\ cur_node_idx' = c
  BY <1>5, SameWords DEF Kernel!Issue
<1>7. IsPartialMax(c, n + 1, M)
  BY <1>3, <1>4, MaxAfterWord
<1>8. slot_node[n + 1] = c /\ c \in Nat
  BY <1>2, <1>3, <1>4, NodeOfNextWord, NodesInOrder
<1>9. \A i, t, v : IsPartialMax(i, t, v)' <=> IsPartialMax(i, t, v)
  BY <1>1, <1>3, SameValues
<1> HIDE DEF w, c, M
<1>10. ResultInv' /\ ParamInv'
  BY <1>1, <1>3, SameParams DEF SInv, ResultInv
<1>11. LeafInv'
  <2>1. Value' = Value
    BY <1>1, <1>3, SameValues
  <2>2. QED
    BY <1>1, <1>3, <2>1 DEF SInv, LeafInv
<1>12. MaxInv'
  <2>1. CASE IncIdx(w)
    <3>1. WordsOf(c + 1, n + 1) = {}
      <4> SUFFICES ASSUME NEW s \in 1..n + 1, slot_node[s] = c + 1 PROVE FALSE
        BY DEF WordsOf
      <4>1. s \in 1..Len(dram_data) /\ s <= n + 1
        BY <1>2, <1>4
      <4>2. c + 1 <= c
        BY <1>2, <1>4, <1>8, <4>1, NodesInOrder
      <4>3. QED
        BY <1>8, <4>2
    <3>2. WordsUpTo(c + 1, n + 1) = 0
      BY <3>1, FS_EmptySet DEF WordsUpTo
    <3>3. IsPartialMax(c + 1, n + 1, NegInf)
      <4>1. 1..0 = {}
        OBVIOUS
      <4>2. QED
        BY <3>2, <4>1 DEF IsPartialMax, IsMaxOf
    <3>4. QED
      BY <1>3, <1>6, <1>9, <2>1, <3>3 DEF MaxInv
  <2>2. CASE ~IncIdx(w)
    BY <1>3, <1>6, <1>7, <1>9, <2>2 DEF MaxInv
  <2>3. QED
    BY <2>1, <2>2
<1>13. PICK S : inflight \in Seq(S)
  BY <1>2 DEF KInv, InflightInv
<1>14. CASE DoComp(w)
  <2> DEFINE x == [slot |-> n, node |-> c, value |-> M]
  <2>1. x.slot = n /\ x.node = c /\ x.value = M
    OBVIOUS
  <2>2. inflight' = Append(inflight, x)
    BY <1>6, <1>14
  <2> HIDE DEF x
  <2>3. inflight \in Seq(S \cup {x})
    BY <1>13
  <2>4. PICK k \in Nat : k = Len(inflight)
    BY <1>13
  <2>5. /\ Len(inflight') = k + 1 /\ inflight'[k + 1] = x
        /\ \A j \in 1..k : inflight'[j] = inflight[j]
        /\ inflight' # <<>>
        /\ Head(inflight') = IF inflight = <<>> THEN x ELSE Head(inflight)
    BY <2>2, <2>3, <2>4
  <2>6. Landed' = Landed
    BY <2>1, <2>5 DEF Landed
  <2>7. ASSUME NEW j \in 1..Len(inflight')
        PROVE  IsPartialMax(inflight'[j].node, inflight'[j].slot + 1, inflight'[j].value)
    <3>1. j \in 1..k \/ j = k + 1
      BY <2>4, <2>5
    <3>2. CASE j \in 1..k
      BY <2>4, <2>5, <3>2 DEF SInv, WritesInv
    <3>3. CASE j = k + 1
      BY <1>7, <2>1, <2>5, <3>3
    <3>4. QED
      BY <3>1, <3>2, <3>3
  <2>8. ASSUME NEW t \in Landed + 1..n + 1, DoComp(dram_data[t])
        PROVE  \E j \in 1..Len(inflight') : inflight'[j].slot = t - 1
    <3>1. Landed \in 0..n /\ n \in Nat
      BY <1>2, LandedType DEF KInv
    <3>2. CASE t = n + 1
      <4>1. k + 1 \in 1..Len(inflight') /\ inflight'[k + 1].slot = t - 1
        BY <2>1, <2>4, <2>5, <3>1, <3>2
      <4>2. QED
        BY <4>1
    <3>3. CASE t # n + 1
      <4>1. t \in Landed + 1..n
        BY <3>1, <3>3
      <4>2. PICK j \in 1..k : inflight[j].slot = t - 1
        BY <1>3, <2>4, <2>8, <4>1 DEF SInv, WritesInv
      <4>3. j \in 1..Len(inflight') /\ inflight'[j].slot = t - 1
        BY <2>4, <2>5, <4>2
      <4>4. QED
        BY <4>3
    <3>4. QED
      BY <3>2, <3>3
  <2>9. WritesInv'
    BY <1>1, <1>3, <1>9, <2>6, <2>7, <2>8 DEF WritesInv
  <2>10. LandedInv'
    BY <1>1, <1>3, <1>9, <2>6 DEF SInv, LandedInv
  <2>11. QED
    BY <1>1, <1>10, <1>11, <1>12, <2>9, <2>10 DEF SInv
<1>15. CASE ~DoComp(w)
  <2>1. inflight' = inflight
    BY <1>6, <1>15
  <2>2. CASE inflight # <<>>
    <3>1. Landed' = Landed /\ Landed \in 0..n /\ n \in Nat
      BY <1>2, <2>1, <2>2, LandedType DEF Landed, KInv
    <3>2. \A t \in Landed + 1..n + 1 : DoComp(dram_data[t]) => t \in Landed + 1..n
      BY <1>15, <3>1 DEF w
    <3>3. WritesInv'
      BY <1>1, <1>3, <1>9, <2>1, <3>1, <3>2 DEF SInv, WritesInv
    <3>4. LandedInv'
      BY <1>1, <1>3, <1>9, <3>1 DEF SInv, LandedInv
    <3>5. QED
      BY <1>1, <1>10, <1>11, <1>12, <3>3, <3>4 DEF SInv
  <2>3. CASE inflight = <<>>
    <3>1. Landed = n /\ Landed' = n + 1 /\ n \in Nat
      BY <1>3, <1>4, <2>1, <2>3 DEF Landed
    <3>2. WritesInv'
      <4>1. (n + 1) + 1..n + 1 = {} /\ 1..Len(inflight') = {}
        BY <2>1, <2>3, <3>1
      <4>2. QED
        BY <1>3, <3>1, <4>1 DEF WritesInv
    <3>3. ASSUME NEW t \in 1..n + 1, DoComp(dram_data[t])
          PROVE  IsPartialMax(slot_node[t], n + 1, evaluation_cache[slot_node[t]])
      <4>1. t \in 1..n
        BY <1>15, <3>1, <3>3 DEF w
      <4>2. IsPartialMax(slot_node[t], n, evaluation_cache[slot_node[t]])
        BY <1>3, <3>1, <3>3, <4>1 DEF SInv, LandedInv
      <4>3. WordsUpTo(slot_node[t], n + 1) = WordsUpTo(slot_node[t], n)
        BY <1>2, <1>4, <1>15, WordsOfNext DEF w
      <4>4. QED
        BY <4>2, <4>3 DEF IsPartialMax
    <3>4. LandedInv'
      BY <1>1, <1>3, <1>9, <3>1, <3>3 DEF LandedInv
    <3>5. QED
      BY <1>1, <1>10, <1>11, <1>12, <3>2, <3>4 DEF SInv
  <2>4. QED
    BY <2>2, <2>3
<1>16. QED
  BY <1>14, <1>15

\* Between the slots of two writes in flight, one after the other, no word computes.
LEMMA LandKeepsSInv == ASSUME SInv, KernelStep, Kernel!Land PROVE SInv'
<1>1. /\ BInv' /\ UNCHANGED <<file, header, dram_data, slot_node, instantiations>>
      /\ UNCHANGED <<literals, tops, bool_params>>
  BY KernelKeepsBInv DEF SInv, KernelStep, hostVars
<1>2. /\ BInv /\ KInv /\ IInv /\ CountInv /\ host = "launched"
      /\ Len(dram_data) = Loop /\ Loop \in Nat \ {0} /\ n \in 0..Loop
  BY NetworkIsRead DEF SInv, BInv, KInv, CounterInv, KernelStep
<1>3. /\ inflight # <<>> /\ inflight' = Tail(inflight)
      /\ evaluation_cache' =
           [evaluation_cache EXCEPT ![Head(inflight).node] = Head(inflight).value]
      /\ UNCHANGED <<comp, m, n, cur_node_idx, max_prob, Kernel!localVars, result>>
  BY DEF Kernel!Land, Kernel!Oldest, Kernel!loopVars
<1>4. comp = "decision"
  BY <1>2, <1>3 DEF KInv, InflightInv
<1>5. PICK S : inflight \in Seq(S)
  BY <1>2 DEF KInv, InflightInv
<1>6. PICK k \in Nat : Len(inflight) = k + 1
  <2>1. Len(inflight) \in Nat /\ Len(inflight) # 0
    BY <1>3, <1>5
  <2>2. Len(inflight) - 1 \in Nat /\ Len(inflight) = (Len(inflight) - 1) + 1
    BY <2>1
  <2>3. QED
    BY <2>2
<1>7. /\ Head(inflight) = inflight[1] /\ Len(inflight') = k
      /\ \A j \in 1..k : inflight'[j] = inflight[j + 1]
      /\ k = 0 => inflight' = <<>>
      /\ k # 0 => inflight' # <<>> /\ Head(inflight') = inflight[2]
  <2>1. /\ Head(inflight) = inflight[1] /\ Len(inflight') = k /\ inflight' \in Seq(S)
        /\ \A j \in 1..k : inflight'[j] = inflight[j + 1]
    BY <1>3, <1>5, <1>6
  <2>2. k = 0 <=> inflight' = <<>>
    BY <2>1
  <2>3. ASSUME k # 0 PROVE Head(inflight') = inflight[2]
    <3>1. 1 \in 1..k /\ 1 + 1 = 2
      BY <2>3
    <3>2. Head(inflight') = inflight'[1]
      BY <2>1, <2>2, <2>3
    <3>3. QED
      BY <2>1, <3>1, <3>2
  <2>4. QED
    BY <2>1, <2>2, <2>3
<1> DEFINE s == inflight[1].slot
           c == inflight[1].node
           v == inflight[1].value
<1>8. /\ \A j \in 1..k + 1 : inflight[j].slot \in 0..n - 1
      /\ DoComp(dram_data[s + 1]) /\ c = slot_node[s + 1]
      /\ \A i, j \in 1..k + 1 : i < j => inflight[i].slot < inflight[j].slot
      /\ s \in 0..n - 1
  BY <1>2, <1>6 DEF KInv, InflightInv
<1>9. IsPartialMax(c, s + 1, v)
  BY <1>6 DEF SInv, WritesInv
<1>10. Landed = s /\ Landed' = IF k = 0 THEN n ELSE inflight[2].slot
  BY <1>3, <1>7 DEF Landed
<1>11. \A i, t, u : IsPartialMax(i, t, u)' <=> IsPartialMax(i, t, u)
  BY <1>1, <1>3, SameValues
<1> HIDE DEF s, c, v
<1>12. PICK l \in Nat : l = Landed' /\ s + 1 <= l /\ l <= n
  <2>1. CASE k = 0
    BY <1>2, <1>8, <1>10, <2>1
  <2>2. CASE k # 0
    <3>1. 1 \in 1..k + 1 /\ 2 \in 1..k + 1 /\ s < inflight[2].slot /\ inflight[2].slot \in 0..n - 1
      BY <1>8, <2>2 DEF s
    <3>2. QED
      BY <1>2, <1>8, <1>10, <2>2, <3>1
  <2>3. QED
    BY <2>1, <2>2
<1>13. \A t \in s + 1..n : DoComp(dram_data[t]) =>
         \E j \in 1..k + 1 : inflight[j].slot = t - 1
  BY <1>4, <1>6, <1>10 DEF SInv, WritesInv
<1>14. ASSUME NEW t \in (s + 1) + 1..l, DoComp(dram_data[t]) PROVE FALSE
  <2>1. t \in s + 1..n
    BY <1>2, <1>8, <1>12
  <2>2. PICK j \in 1..k + 1 : inflight[j].slot = t - 1
    BY <1>13, <1>14, <2>1
  <2>3. j # 1
    BY <1>8, <2>2 DEF s
  <2>4. k # 0 /\ 2 \in 1..k + 1 /\ (j = 2 \/ 2 < j)
    BY <2>3
  <2>5. inflight[2].slot <= inflight[j].slot /\ inflight[2].slot \in Int /\ inflight[j].slot \in Int
    BY <1>8, <2>4
  <2>6. l = inflight[2].slot
    BY <1>10, <1>12, <2>4
  <2>7. QED
    BY <1>8, <2>2, <2>5, <2>6
<1>15. ResultInv' /\ ParamInv' /\ MaxInv'
  BY <1>1, <1>3, <1>11, SameParams DEF SInv, ResultInv, MaxInv
<1>16. c \in 0..Len(file) - 1 /\ file[c + 1].kind = "D"
  <2>1. PICK t \in 1..Len(dram_data) : t = s + 1
    BY <1>2, <1>8
  <2>2. QED
    BY <1>2, <1>8, <2>1, WordOfStream
<1>17. /\ DOMAIN evaluation_cache' = DOMAIN evaluation_cache
       /\ \A i \in DOMAIN evaluation_cache :
            evaluation_cache'[i] = IF i = c THEN v ELSE evaluation_cache[i]
  BY <1>3, <1>7 DEF c, v
<1>18. DOMAIN evaluation_cache = 0..Len(file) - 1 /\ header.PSDD_SIZE = Len(file)
  BY <1>2, NetworkIsRead DEF SInv, LeafInv
<1>19. LeafInv'
  <2>1. Value' = Value
    BY <1>1, <1>3, SameValues
  <2>2. \A i \in 0..Len(file) - 1 : file[i + 1].kind \in {"L", "T"} =>
          evaluation_cache'[i] = evaluation_cache[i]
    BY <1>16, <1>17, <1>18
  <2>3. QED
    BY <1>1, <1>3, <1>4, <1>17, <1>18, <2>1, <2>2 DEF SInv, LeafInv
<1>20. WritesInv'
  <2>0. s \in Int /\ n \in Int /\ l \in Int /\ s < l
    BY <1>2, <1>8, <1>12
  <2>1. ASSUME NEW j \in 1..k
        PROVE  IsPartialMax(inflight'[j].node, inflight'[j].slot + 1, inflight'[j].value)
    <3>1. j + 1 \in 1..Len(inflight) /\ inflight'[j] = inflight[j + 1]
      BY <1>6, <1>7
    <3>2. QED
      BY <3>1 DEF SInv, WritesInv
  <2>2. ASSUME NEW t \in l + 1..n, DoComp(dram_data[t])
        PROVE  \E j \in 1..k : inflight'[j].slot = t - 1
    <3>1. t \in s + 1..n /\ t - 1 # s
      BY <2>0
    <3>2. PICK j \in 1..k + 1 : inflight[j].slot = t - 1
      BY <1>13, <2>2, <3>1
    <3>3. j # 1
      BY <3>1, <3>2 DEF s
    <3>4. j - 1 \in 1..k /\ (j - 1) + 1 = j
      BY <3>3
    <3>5. inflight'[j - 1] = inflight[j]
      BY <1>7, <3>4
    <3>6. QED
      BY <3>2, <3>4, <3>5
  <2>3. QED
    BY <1>1, <1>3, <1>7, <1>11, <1>12, <2>1, <2>2 DEF WritesInv
<1>21. ASSUME NEW t \in 1..l, DoComp(dram_data[t])
       PROVE  IsPartialMax(slot_node[t], l, evaluation_cache'[slot_node[t]])
  <2>1. PICK i : i = slot_node[t]
    OBVIOUS
  <2>2. t \in 1..Len(dram_data)
    BY <1>2, <1>12
  <2>3. i \in DOMAIN evaluation_cache
    BY <1>2, <1>18, <1>21, <2>1, <2>2, WordOfStream
  <2>4. CASE i = c
    <3>1. evaluation_cache'[i] = v
      BY <1>17, <2>3, <2>4
    <3>2. WordsUpTo(c, s + 1) = WordsUpTo(c, l)
      <4>1. s + 1 \in Nat
        BY <1>8
      <4>2. QED
        BY <1>12, <1>14, <4>1, SameWordsUpTo
    <3>3. QED
      BY <1>9, <2>1, <2>4, <3>1, <3>2 DEF IsPartialMax
  <2>5. CASE i # c
    <3>1. evaluation_cache'[i] = evaluation_cache[i]
      BY <1>17, <2>3, <2>5
    <3>2. \A r \in s + 1..l : ~ (DoComp(dram_data[r]) /\ slot_node[r] = i)
      <4> SUFFICES ASSUME NEW r \in s + 1..l, DoComp(dram_data[r]), slot_node[r] = i
                   PROVE  FALSE
        OBVIOUS
      <4>1. r = s + 1 \/ r \in (s + 1) + 1..l
        BY <1>8, <1>12
      <4>2. QED
        BY <1>8, <1>14, <2>5, <4>1
    <3>3. t \in 1..s
      <4>1. t \notin s + 1..l
        BY <1>21, <2>1, <3>2
      <4>2. QED
        BY <1>8, <1>12, <4>1
    <3>4. IsPartialMax(i, s, evaluation_cache[i])
      BY <1>4, <1>10, <1>21, <2>1, <3>3 DEF SInv, LandedInv
    <3>5. WordsUpTo(i, s) = WordsUpTo(i, l)
      <4>1. s \in Nat /\ s <= l
        BY <1>8, <1>12
      <4>2. QED
        BY <3>2, <4>1, SameWordsUpTo
    <3>6. QED
      BY <2>1, <3>1, <3>4, <3>5 DEF IsPartialMax
  <2>6. QED
    BY <2>4, <2>5
<1>22. LandedInv'
  BY <1>1, <1>11, <1>12, <1>21 DEF LandedInv
<1>23. QED
  BY <1>1, <1>15, <1>19, <1>20, <1>22 DEF SInv

\* The value reported is that of the last node.
LEMMA ReportIsReference ==
  ASSUME SInv, KernelStep, Kernel!Report
  PROVE  /\ result' = Append(result, ReferenceResult(file, Kernel!Query(m)))
         /\ Len(result) = m /\ m \in 0..NUM_QUERIES - 1
<1>1. BInv /\ host = "launched"
  BY DEF SInv, KernelStep
<1>2. /\ Len(file) \in Nat \ {0} /\ header.PSDD_SIZE = Len(file)
      /\ Len(dram_data) = Loop /\ Loop \in Nat \ {0}
  BY <1>1, NetworkIsRead
<1>3. /\ comp = "decision" /\ n = Loop /\ inflight = <<>>
      /\ result' = Append(result, evaluation_cache[header.PSDD_SIZE - 1])
  BY LoopLenIsLoop DEF Kernel!Report
<1>4. PICK i \in 0..Len(file) - 1 : i = Len(file) - 1
  <2>1. \A k \in Nat \ {0} : k - 1 \in 0..k - 1
    OBVIOUS
  <2>2. QED
    BY <1>2, <2>1
<1>5. n + 1..Len(dram_data) = {} /\ 1..Len(inflight) = {}
  BY <1>2, <1>3
<1>6. evaluation_cache[i] = Value[i]
  BY <1>1, <1>3, <1>5, FinalValue
<1>7. evaluation_cache[header.PSDD_SIZE - 1] = ReferenceResult(file, Kernel!Query(m))
  BY <1>2, <1>4, <1>6 DEF ReferenceResult, Value
<1>8. Len(result) = m /\ m < NUM_QUERIES /\ m \in Nat
  BY <1>1, <1>3 DEF SInv, ResultInv, BInv, KInv, CounterInv
<1>9. QED
  BY <1>3, <1>7, <1>8, KernelAssumption

LEMMA ReportKeepsSInv == ASSUME SInv, KernelStep, Kernel!Report PROVE SInv'
<1>1. /\ BInv' /\ UNCHANGED <<file, header, dram_data, slot_node, instantiations>>
      /\ UNCHANGED <<literals, tops, bool_params>>
  BY KernelKeepsBInv DEF SInv, KernelStep, hostVars
<1>2. /\ m' = m + 1 /\ comp' = IF m + 1 < NUM_QUERIES THEN "literals" ELSE "done"
      /\ comp = "decision" /\ inflight = <<>>
      /\ UNCHANGED <<Kernel!localVars, evaluation_cache, inflight>>
  BY DEF Kernel!Report
<1>3. PICK x : result' = Append(result, x)
  BY ReportIsReference
<1>4. PICK S : result \in Seq(S) /\ Len(result) = m
  BY DEF SInv, ResultInv
<1>5. result' \in Seq(S \cup {x}) /\ Len(result') = m + 1
  <2>1. result \in Seq(S \cup {x})
    BY <1>4
  <2>2. QED
    BY <1>3, <1>4, <2>1
<1>6. ResultInv'
  BY <1>2, <1>5 DEF ResultInv
<1>7. ParamInv' /\ LeafInv'
  BY <1>1, <1>2, SameParams DEF SInv, LeafInv
<1>8. MaxInv' /\ WritesInv' /\ LandedInv'
  BY <1>2 DEF MaxInv, WritesInv, LandedInv
<1>9. QED
  BY <1>1, <1>6, <1>7, <1>8 DEF SInv

LEMMA StepKeepsSInv == SInv /\ [RunNext]_vars => SInv'
<1> SUFFICES ASSUME SInv, [RunNext]_vars PROVE SInv'
  OBVIOUS
<1>1. CASE HostStep
  BY <1>1, HostStepKeepsSInv
<1>2. CASE KernelStep
  BY <1>2, DramReadKeepsSInv, LoadKeepsSInv, LiteralsKeepsSInv, TopsKeepsSInv,
     IssueKeepsSInv, LandKeepsSInv, ReportKeepsSInv
  DEF KernelStep, Kernel!Step, Kernel!CompStep
<1>3. CASE UNCHANGED vars
  <2>1. UNCHANGED hostVars /\ UNCHANGED kernelVars /\ UNCHANGED instantiations
    BY <1>3 DEF vars
  <2>2. KInv'
    BY StepKeepsKInv DEF SInv, BInv
  <2>3. FileInv' /\ FinishInv' /\ HInv'
    BY <2>1, StepKeepsFile, StepKeepsHInv DEF SInv, BInv, KInv, RunFits, InputsFit
  <2>4. UNCHANGED <<file, header, dram_data, slot_node, instantiations>>
        /\ UNCHANGED <<literals, tops, bool_params>>
    BY <2>1 DEF hostVars
  <2>5. UNCHANGED <<comp, m, n, cur_node_idx, max_prob, Kernel!localVars,
                    evaluation_cache, inflight, result>>
    BY <2>1 DEF kernelVars, Kernel!localVars
  <2>6. RunFits'
    BY <2>4 DEF SInv, BInv, RunFits
  <2>7. Value' = Value /\ Landed' = Landed
        /\ \A i, t, v : IsPartialMax(i, t, v)' <=> IsPartialMax(i, t, v)
    BY <2>4, <2>5, SameValues DEF Landed
  <2>8. ResultInv' /\ ParamInv' /\ LeafInv'
    BY <2>4, <2>5, <2>7, SameParams DEF SInv, ResultInv, LeafInv
  <2>9. MaxInv' /\ WritesInv' /\ LandedInv'
    BY <2>4, <2>5, <2>7 DEF SInv, MaxInv, WritesInv, LandedInv
  <2>10. QED
    BY <2>2, <2>3, <2>6, <2>8, <2>9 DEF SInv, BInv
<1>4. QED
  BY <1>1, <1>2, <1>3 DEF RunNext, Finished

LEMMA InitSInv == RunFits /\ RunInit => SInv
<1> SUFFICES ASSUME RunFits, RunInit PROVE SInv
  OBVIOUS
<1>1. Init /\ Kernel!Init
  BY DEF RunInit
<1>2. KInv /\ FileInv /\ FinishInv /\ HInv
  BY <1>1, InitKInv, InitFile, InitHInv
<1>3. /\ comp = "load" /\ inflight = <<>> /\ result = <<>> /\ m = 0
      /\ evaluation_cache = [i \in Kernel!Nodes |-> 0]
  BY <1>1 DEF Kernel!Init
<1>4. ResultInv
  BY <1>3, KernelAssumption DEF ResultInv
<1>5. ParamInv /\ LeafInv
  BY <1>3 DEF ParamInv, LeafInv, Kernel!Nodes
<1>6. MaxInv /\ WritesInv /\ LandedInv
  BY <1>3 DEF MaxInv, WritesInv, LandedInv
<1>7. QED
  BY <1>2, <1>4, <1>5, <1>6 DEF SInv, BInv

\* The inputs are those the program was started with.
LEMMA InputsStay == [RunNext]_vars => UNCHANGED <<file, header, instantiations>>
  BY DEF RunNext, HostStep, BuildStep, ReadLiteral, ReadTop, InsertBubble, PlaceEdge,
         Crash, Finish, KernelStep, Finished, vars, hostVars

(***************************************************************************)
(* SInv holds in every state of every run whose inputs fit: the header     *)
(* counts the nodes, the ids are lines, and the entries of the parameter   *)
(* vector that the kernel takes for the queries hold the right values.     *)
(***************************************************************************)
THEOREM ServiceInvariant == RunSpec => [](RunFits => SInv)
<1>1. RunInit => (RunFits => SInv)
  BY InitSInv
<1>2. (RunFits => SInv) /\ [RunNext]_vars => (RunFits => SInv)'
  <2>1. [RunNext]_vars => (RunFits' <=> RunFits)
    BY InputsStay DEF RunFits
  <2>2. QED
    BY <2>1, StepKeepsSInv
<1>3. QED
  BY <1>1, <1>2, PTL DEF RunSpec

(***************************************************************************)
(* For every network and every latency up to Gap: an edge is never         *)
(* computed with a value of the query before, nor with a maximum over a    *)
(* part of its operand's elements (fpga_evaluate.cpp, lines 195-223).      *)
(***************************************************************************)
THEOREM OperandsCorrect == RunSpec => []OperandsAreFinal
<1>1. (RunFits => SInv) => OperandsAreFinal
  BY OperandValue DEF OperandsAreFinal, SInv, BInv, KInv, CounterInv, Value
<1>2. QED
  BY <1>1, ServiceInvariant, PTL

\* A step of the run answers the next query or is none of the service.
LEMMA StepAnswers ==
  (RunFits => SInv) /\ [RunNext]_vars => [Service!Answer]_(Service!serviceVars)
<1> SUFFICES ASSUME RunFits => SInv, [RunNext]_vars
             PROVE  Service!Answer \/ UNCHANGED Service!serviceVars
  OBVIOUS
<1>1. UNCHANGED <<file, header, instantiations>>
  BY InputsStay
<1>2. RunFits' <=> RunFits
  BY <1>1 DEF RunFits
<1>3. ReferenceResults' = ReferenceResults
  BY <1>1 DEF ReferenceResults, Kernel!Query
<1>4. CASE ~RunFits
  <2>1. /\ Expected = <<>> /\ Answers = <<>>
        /\ Expected' = <<>> /\ Answers' = <<>>
    BY <1>2, <1>4 DEF Expected, Answers
  <2>2. QED
    BY <2>1 DEF Service!serviceVars
<1>5. CASE RunFits
  <2>1. /\ Expected = ReferenceResults /\ Answers = result
        /\ Expected' = Expected /\ Answers' = result'
    BY <1>2, <1>3, <1>5 DEF Expected, Answers
  <2>2. CASE KernelStep /\ Kernel!Report
    <3>1. /\ result' = Append(result, ReferenceResult(file, Kernel!Query(m)))
          /\ Len(result) = m /\ m \in 0..NUM_QUERIES - 1
      BY <1>5, <2>2, ReportIsReference
    <3>2. NUM_QUERIES \in Nat
      BY KernelAssumption
    <3>3. Len(Expected) = NUM_QUERIES
      BY <2>1, <3>2 DEF ReferenceResults
    <3>4. PICK q \in 1..NUM_QUERIES : q = m + 1 /\ q - 1 = m
      BY <3>1, <3>2
    <3>5. Expected[q] = ReferenceResult(file, Kernel!Query(m))
      BY <2>1, <3>4 DEF ReferenceResults
    <3>6. Len(result) < Len(Expected) /\ result' = Append(result, Expected[Len(result) + 1])
      BY <3>1, <3>2, <3>3, <3>4, <3>5
    <3>7. QED
      BY <2>1, <3>6 DEF Service!Answer
  <2>3. CASE ~ (KernelStep /\ Kernel!Report)
    <3>1. result' = result
      BY <2>3 DEF RunNext, HostStep, KernelStep, Kernel!Step, Kernel!CompStep,
                  Kernel!DramRead, Kernel!Load, Kernel!Literals, Kernel!Tops, Kernel!Issue,
                  Kernel!Land, Finished, vars, kernelVars
    <3>2. QED
      BY <2>1, <3>1 DEF Service!serviceVars
  <2>4. QED
    BY <2>2, <2>3
<1>6. QED
  BY <1>4, <1>5

(***************************************************************************)
(* The program implements the service: for all inputs that fit, whatever   *)
(* the interleaving of the reader, the decision loop and the writes on     *)
(* their way, the results are those of the reference evaluation, in the    *)
(* order of the queries (verifyResults, psdd_inference_main.cpp, lines     *)
(* 267-288).                                                               *)
(***************************************************************************)
THEOREM ServiceImplemented == RunSpec => ServiceSpec
<1>1. RunInit => Service!Init
  BY DEF RunInit, Kernel!Init, Service!Init, Answers
<1>2. QED
  BY <1>1, StepAnswers, ServiceInvariant, PTL DEF RunSpec, ServiceSpec, Service!Spec

=============================================================================
