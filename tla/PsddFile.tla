------------------------------ MODULE PsddFile ------------------------------
(***************************************************************************)
(* The data every module about the accelerator shares: the lines of a      *)
(* .psdd file, log-domain numbers, the fixed-point conversions between     *)
(* host and kernel, and the reference evaluation on the CPU.               *)
(*                                                                         *)
(* A line has the number of its node, by which later lines refer to it.    *)
(* WritePsddToFile numbers the nodes 0, 1, 2, ... by their line            *)
(* (psdd_node.cpp:701-738), but the readers take any numbers.  Comment     *)
(* lines are left out.                                                     *)
(* A log probability is an integer, in units of some quantum that every    *)
(* fixed-point format of the code represents exactly, or NegInf = log 0.   *)
(***************************************************************************)
EXTENDS Integers, Sequences, FiniteSets

CONSTANT NegInf    \* -infinity, the logarithm of 0

ASSUME NegInfAssumption == NegInf \notin Int

\* PsddParameter::operator* adds logarithms.
LogMul(a, b) == IF NegInf \in {a, b} THEN NegInf ELSE a + b

\* The comparison of two floats, -infinity included.
LogLess(a, b) == /\ b # NegInf
                 /\ a = NegInf \/ a < b

LogMax(a, b) == IF LogLess(a, b) THEN b ELSE a

-----------------------------------------------------------------------------
\* Assigning to a signed fixed-point type with range [-half, half) wraps.
Signed(x, half) == ((x + half) % (2 * half)) - half

AsParameter(x) == Signed(x, 128)    \* ap_fixed<21,8>
AsBoolParam(x) == Signed(x, 2)      \* ap_fixed<32,2> and ap_fixed<14,2>

\* The number of a node is cut to 20 bits, in a word and in the kernel.
IndexRange == 1048576
AsIndex(i) == i % IndexRange

-----------------------------------------------------------------------------
(***************************************************************************)
(* Lines.  A literal has a variable and a sign, a true node a variable and *)
(* the log probabilities of its two values, a decision node its elements.  *)
(***************************************************************************)
Element == [prime : Nat, sub : Nat, weight : Int]

LiteralLine  == [kind : {"L"}, id : Nat, var : Nat, sign : BOOLEAN]
TopLine      == [kind : {"T"}, id : Nat, var : Nat, pos : Int, neg : Int]
DecisionLine == [kind : {"D"}, id : Nat, elements : Seq(Element)]

Line == LiteralLine \cup TopLine \cup DecisionLine

\* The nodes are numbered by their lines, from 0, as in a file the program wrote.
IdsAreLines(lines) == \A i \in 1..Len(lines) : lines[i].id = i - 1

\* And the children of every decision node are on earlier lines.
ChildrenBeforeParents(lines) ==
  \A i \in 1..Len(lines) : lines[i].kind = "D" =>
    \A j \in 1..Len(lines[i].elements) :
      /\ lines[i].elements[j].prime < i - 1
      /\ lines[i].elements[j].sub < i - 1

-----------------------------------------------------------------------------
(***************************************************************************)
(* The words of the stream.  ctl is bits 62 and 61: the high one makes the *)
(* kernel compute, the low one makes it go on to the next node.            *)
(***************************************************************************)
IndexField == 0..IndexRange - 1
Word == [ctl : 0..3, prime : IndexField, sub : IndexField, param : Int]

DoComp(w) == w.ctl \in {2, 3}
IncIdx(w) == w.ctl \in {1, 3}

-----------------------------------------------------------------------------
(***************************************************************************)
(* The reference: EvaluateToCompareFPGA with every variable observed, for  *)
(* a file whose nodes are numbered by their lines.                         *)
(* A decision node sums its elements.  In a deterministic network at most  *)
(* one element has a nonzero probability under a complete instantiation,   *)
(* so the sum is that element; SumOf says so, and Deterministic is what    *)
(* the networks of every run satisfy.                                      *)
(***************************************************************************)
ElementValue(e, value) == LogMul(LogMul(value[e.prime], value[e.sub]), e.weight)

SumOf(elements, value) ==
  LET nonzero == {ElementValue(elements[j], value) : j \in 1..Len(elements)} \ {NegInf}
  IN  IF nonzero = {} THEN NegInf ELSE CHOOSE v \in nonzero : TRUE

LiteralValue(l, inst) == IF inst[l.var] = l.sign THEN 0 ELSE NegInf

LineValue(l, inst, value) ==
  CASE l.kind = "L" -> LiteralValue(l, inst)
    [] l.kind = "T" -> IF inst[l.var] THEN l.pos ELSE l.neg
    [] l.kind = "D" -> SumOf(l.elements, value)

Reference(lines, inst) ==
  LET value[i \in 0..Len(lines)] ==
        IF i = Len(lines) THEN NegInf ELSE LineValue(lines[i + 1], inst, value)
  IN  value

ReferenceResult(lines, inst) == Reference(lines, inst)[Len(lines) - 1]

Deterministic(lines, inst) ==
  LET value == Reference(lines, inst) IN
  \A i \in 1..Len(lines) : lines[i].kind = "D" =>
    \A j, k \in 1..Len(lines[i].elements) :
      /\ ElementValue(lines[i].elements[j], value) # NegInf
      /\ ElementValue(lines[i].elements[k], value) # NegInf
      => j = k

=============================================================================
