----------------------------- MODULE MCFpgaRun ------------------------------
\* The whole program on small networks.
EXTENDS FpgaRun, Networks

\* The number of words the host measures for DELAY/II = 3.
Length(f) == CASE f = Chain -> 11 [] f = Diamond -> 15 [] f = Primes -> 10 [] f = Far -> 9
               [] f = Reordered -> 10 [] f = EqualTops -> 3 [] f = NoTops -> 6

(***************************************************************************)
(* Headers that count the nodes of the file, and the one with 1 for true   *)
(* nodes and for their parameters, for a file with a true node and for one *)
(* without.                                                                *)
(***************************************************************************)
MCBuilds == { [file |-> f, header |-> HeaderOf(f, Length(f))] :
                f \in {Chain, Diamond, Primes, Far, Reordered, EqualTops} }
            \cup { [file |-> f, header |-> OneParameter(HeaderOf(f, Length(f)))] :
                     f \in {Chain, NoTops} }
            \cup { [file |-> Chain, header |-> HeaderOf(Chain, 12)] }

\* One network with two true nodes, whose stream has three words.
TwoTopsBuilds == { [file |-> TwoTops, header |-> HeaderOf(TwoTops, 3)] }

\* Bit v of an instantiation is variable v; bit 0 is no variable.
Inst(a, b, c, d) == [v \in 0..4 |-> CASE v = 0 -> FALSE [] v = 1 -> a [] v = 2 -> b
                                      [] v = 3 -> c [] v = 4 -> d]

MCInstantiationVectors ==
  { << Inst(TRUE, TRUE, TRUE, TRUE), Inst(FALSE, FALSE, FALSE, TRUE) >>,
    << Inst(FALSE, TRUE, TRUE, FALSE), Inst(FALSE, FALSE, TRUE, TRUE) >>,
    << Inst(TRUE, FALSE, FALSE, TRUE) >>,
    << Inst(TRUE, TRUE, FALSE, TRUE), Inst(FALSE, TRUE, TRUE, FALSE) >> }

\* Zeros, or what another array has there.
MCUnsetEntries == { [var |-> 0, sign |-> FALSE, index |-> 0], [var |-> 1, sign |-> TRUE, index |-> 2] }

ASSUME NetworksAreDeterministic ==
  \A b \in MCBuilds \cup TwoTopsBuilds, v \in MCInstantiationVectors :
    IdsAreLines(b.file) => QueriesFit(b.file, v) /\ ChildrenBeforeParents(b.file)

\* The theorems are about every network here that has a header and numbers of its own, with all
\* queries, and about the header with one parameter for the queries that take just this one.
ASSUME NetworksFit ==
  /\ \A f \in {Chain, Diamond, Primes, Far, EqualTops}, v \in MCInstantiationVectors :
       InputsFit(f, HeaderOf(f, Length(f)), v)
  /\ \E v \in MCInstantiationVectors : InputsFit(Chain, OneParameter(HeaderOf(Chain, 11)), v)
  /\ \E v \in MCInstantiationVectors : ~InputsFit(Chain, OneParameter(HeaderOf(Chain, 11)), v)
  /\ \A v \in MCInstantiationVectors : ~InputsFit(TwoTops, HeaderOf(TwoTops, 3), v)

=============================================================================
