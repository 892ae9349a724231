----------------------------- MODULE MCLearner ------------------------------
\* The small PSDDs, with data of two examples.
EXTENDS Learner, SmallPsdds

MCStructures == {Shared, Chains}
MCRootLists == {<<9>>, <<10>>, <<7>>, <<9, 10>>, <<10, 9, 10>>, <<8, 7>>}

Batch(size, x1, x2, x3) == [data_size |-> size, examples |-> <<x1, x2, x3>>]
MCBatches ==
  {Batch(0, {}, {}, {})}
  \cup {Batch(2, x1, x2, x3) : x1, x2 \in SUBSET {1, 2}, x3 \in {{1}, {1, 2}}}

=============================================================================
