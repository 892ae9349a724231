-------------------------------- MODULE Sdds --------------------------------
(***************************************************************************)
(* The SDDs of the SDD package, from what its users take for granted: they *)
(* are compressed and trimmed, so that there is one for each function over *)
(* the variables of a vtree.  A node is then known by its vtree node and   *)
(* its models, the sets of variables that are true in them.                *)
(***************************************************************************)
EXTENDS Vtrees

SddFalse == [vtree |-> NoVtree, models |-> {}]
SddTrue == [vtree |-> NoVtree, models |-> {{}}]

Instantiations(t, v) == SUBSET Variables(t, v)

\* What models has left for the right side when the left side is x.
Rest(t, v, models, x) == {y \in Instantiations(t, t[v].right) : x \cup y \in models}
Rests(t, v, models) == {Rest(t, v, models, x) : x \in Instantiations(t, t[v].left)}
Having(t, v, models, rest) == {x \in Instantiations(t, t[v].left) : Rest(t, v, models, x) = rest}

IsConstant(n) == n \in {SddFalse, SddTrue}

\* A function that is about one side only is one of that side's vtree node.
Trimmed(t, n) ==
  LET v == n.vtree
      rests == Rests(t, v, n.models)
      all == Instantiations(t, t[v].right)
  IN  CASE n.models = {} -> SddFalse
        [] n.models = Instantiations(t, v) -> SddTrue
        [] IsLeaf(t, v) -> n
        [] OTHER -> IF Cardinality(rests) = 1
                      THEN [vtree |-> t[v].right, models |-> CHOOSE r \in rests : TRUE]
                    ELSE IF rests = {{}, all}
                      THEN [vtree |-> t[v].left, models |-> Having(t, v, n.models, all)]
                    ELSE n

Sdd(t, root, function) ==
  FoldLeft(LAMBDA n, i : IF IsConstant(n) THEN n ELSE Trimmed(t, n),
           [vtree |-> root, models |-> function], [i \in 1..Cardinality(DOMAIN t) |-> i])

\* The elements of a decision node.
SddElements(t, n) ==
  {[prime |-> Sdd(t, t[n.vtree].left, Having(t, n.vtree, n.models, rest)),
    sub |-> Sdd(t, t[n.vtree].right, rest)] : rest \in Rests(t, n.vtree, n.models)}

SddChildren(t, n) ==
  IF IsConstant(n) \/ IsLeaf(t, n.vtree) THEN {}
  ELSE UNION {{e.prime, e.sub} : e \in SddElements(t, n)}

\* The nodes of an SDD but for the constants, children first.
SddTopologicalSort(t, root) ==
  LET Grow(nodes, i) == nodes \cup UNION {SddChildren(t, n) : n \in nodes}
      nodes == FoldLeft(Grow, {root}, [i \in 1..Cardinality(DOMAIN t) |-> i])
  IN  FoldLeft(LAMBDA list, v : list \o SetToSeq({n \in nodes : n.vtree = v}), <<>>,
               Reverse(SerializeVtree(t, RootOf(t))))

=============================================================================
