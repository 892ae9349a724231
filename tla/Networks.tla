------------------------------ MODULE Networks ------------------------------
\* The small networks on which the modules about the accelerator are checked.
EXTENDS Integers, Sequences, FiniteSets, TLC

L(v, s)      == [kind |-> "L", var |-> v, sign |-> s]
T(v, p, n)   == [kind |-> "T", var |-> v, pos |-> p, neg |-> n]
E(p, s, w)   == [prime |-> p, sub |-> s, weight |-> w]
D(es)        == [kind |-> "D", elements |-> es]

\* The lines with their nodes numbered as given, or by their lines.
WithIds(ids, lines) == [i \in 1..Len(lines) |-> [id |-> ids[i]] @@ lines[i]]
Numbered(lines)     == WithIds([i \in 1..Len(lines) |-> i - 1], lines)

\* Two decision nodes in a row, the second reading the first.
Chain ==
  Numbered(<< L(1, TRUE), L(1, FALSE), T(2, -1, -2), L(3, TRUE), L(3, FALSE),
     D(<<E(0, 2, -1), E(1, 2, -4)>>),
     D(<<E(3, 5, -2), E(4, 5, -3)>>) >>)

\* A node with two parents that only differ in their prime.
Diamond ==
  Numbered(<< L(1, TRUE), L(1, FALSE), T(2, 0, -1), L(3, TRUE), L(3, FALSE),
     D(<<E(0, 2, -1), E(1, 2, -2)>>),
     D(<<E(3, 5, -128)>>), D(<<E(4, 5, 0)>>),
     L(4, TRUE), L(4, FALSE),
     D(<<E(8, 6, -1), E(9, 7, -2)>>) >>)

\* Decision nodes as primes: bubbles may be needed before any edge.
Primes ==
  Numbered(<< L(1, TRUE), L(1, FALSE), T(2, 0, -2), L(3, TRUE), L(3, FALSE),
     D(<<E(0, 2, -1)>>), D(<<E(1, 2, -2)>>),
     D(<<E(5, 3, -1), E(6, 4, -3)>>) >>)

\* A parent long after its child.
Far ==
  Numbered(<< L(1, TRUE), L(1, FALSE), T(2, -1, -2),
     D(<<E(0, 2, 0), E(1, 2, -3)>>), L(3, TRUE), L(3, FALSE),
     D(<<E(4, 3, -1), E(5, 3, -2)>>) >>)

\* Two true nodes.
TwoTops == Numbered(<< T(1, -1, -2), T(2, 0, -1), D(<<E(0, 1, -1)>>) >>)

\* Files that end the program: no elements, an operand defined too late.
Empty   == Numbered(<< L(1, TRUE), D(<<>>) >>)
Forward == Numbered(<< L(1, TRUE), D(<<E(0, 2, 0)>>), L(2, TRUE) >>)

\* No true node: every variable has two literals.
NoTops == Numbered(
  << L(1, TRUE), L(1, FALSE), L(3, TRUE), L(3, FALSE), D(<<E(0, 2, -1), E(1, 3, -2)>>) >>)

\* Two true nodes with the same parameters.
EqualTops == Numbered(<< T(1, -1, -1), T(2, -1, -1), D(<<E(0, 1, -1)>>) >>)

(***************************************************************************)
(* Files whose nodes are not numbered by their lines: Primes with two      *)
(* nodes in exchanged order, one that is numbered beyond the vectors, one  *)
(* whose last node refers to another by the number of its own line.        *)
(***************************************************************************)
Reordered == WithIds(<<0, 1, 2, 3, 4, 6, 5, 7>>,
  << L(1, TRUE), L(1, FALSE), T(2, 0, -2), L(3, TRUE), L(3, FALSE),
     D(<<E(0, 2, -1)>>), D(<<E(1, 2, -2)>>),
     D(<<E(6, 3, -1), E(5, 4, -3)>>) >>)

FarNumber == WithIds(<<0, 1, 2, 3, 4, 50, 6>>,
  << L(1, TRUE), L(1, FALSE), T(2, -1, -2), L(3, TRUE), L(3, FALSE),
     D(<<E(0, 2, -1), E(1, 2, -4)>>),
     D(<<E(3, 50, -2), E(4, 50, -3)>>) >>)

OwnNumber == WithIds(<<0, 1, 2, 3, 4, 6, 5>>,
  << L(1, TRUE), L(1, FALSE), T(2, -1, -2), L(3, TRUE), L(3, FALSE),
     D(<<E(0, 2, -1), E(1, 2, -4)>>),
     D(<<E(3, 6, -2), E(4, 6, -3)>>) >>)

Size(lines, kind) == Cardinality({i \in 1..Len(lines) : lines[i].kind = kind})

HeaderOf(lines, loop) ==
  [PSDD_SIZE |-> Len(lines), MERGED_LOOP_LEN |-> loop,
   TOTAL_LITERALS |-> Size(lines, "L"),
   TOTAL_VARIABLE_INDEXES |-> Size(lines, "T"),
   TOTAL_BOOL_PARAM |-> 2 * Size(lines, "T")]

\* As in the header of the repository (h:42 and 45), which has 1 for both.
OneParameter(head) == [head EXCEPT !.TOTAL_VARIABLE_INDEXES = 1, !.TOTAL_BOOL_PARAM = 1]

=============================================================================
