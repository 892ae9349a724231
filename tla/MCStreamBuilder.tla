--------------------------- MODULE MCStreamBuilder ---------------------------
\* Small networks for the host's stream builder.
EXTENDS StreamBuilder, Networks

\* The length the host measures depends on DELAY; the builds try lengths
\* around it, so that some match and others do not.
MCBuilds ==
  { [file |-> f, header |-> HeaderOf(f, n)] :
      f \in {Chain, Diamond, Primes, Far, Empty, Forward, Reordered, FarNumber, OwnNumber},
      n \in 9..18 }
  \cup { [file |-> Chain, header |-> OneParameter(HeaderOf(Chain, n))] : n \in 9..18 }
  \cup { [file |-> Chain, header |-> [HeaderOf(Chain, 20) EXCEPT !.PSDD_SIZE = 6]],
         [file |-> Chain, header |-> [HeaderOf(Chain, 20) EXCEPT !.TOTAL_LITERALS = 3]],
         [file |-> Chain, header |-> [HeaderOf(Chain, 20) EXCEPT !.TOTAL_BOOL_PARAM = 0]] }

=============================================================================
