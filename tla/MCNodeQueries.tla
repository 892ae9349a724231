---------------------------- MODULE MCNodeQueries ----------------------------
\* The small PSDDs, with every partial instantiation of the variables.
EXTENDS NodeQueries, SmallPsdds

MCStructures == {Shared, Chains}
MCRootLists == {<<9>>, <<10>>, <<7>>}

MCEvidences == {e \in [variables : SUBSET {1, 2, 3}, true : SUBSET {1, 2, 3}] :
                  e.true \subseteq e.variables}

=============================================================================
