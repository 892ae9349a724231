------------------------------ MODULE MCSampler ------------------------------
\* The small PSDDs, with parameters in quarters, numbers in eighths.
EXTENDS Sampler, SmallPsdds

InEighths(g) == [n \in DOMAIN g |-> [g[n] EXCEPT !.parameters = [i \in DOMAIN @ |-> 2 * @[i]]]]
MCStructures == {InEighths(Shared), InEighths(Chains)}
MCRootLists == {}

\* 3/8 falls together with a half, and 7/8 with 1.
MCHash == [u \in 0..8 |-> <<-90, -20, -13, -6, -6, -4, -2, 0, 0>>[u + 1]]
BelowOne == {u \in 0..7 : MCHash[u] # MCHash[8]}
AllDraws == 0..7

=============================================================================
