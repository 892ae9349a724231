---------------------------- MODULE SamplerProofs ----------------------------
(***************************************************************************)
(* Which element a draw makes a decision node take, for any nodes with     *)
(* normalised parameters and any rounding of logarithms that keeps their   *)
(* order: acc is the sum of the parameters that were passed, and the draw  *)
(* is not less than it.  When all were passed that sum is 1, so that some  *)
(* element is taken unless a draw falls together with 1.  Then what comes  *)
(* out is possible: the nodes still to sample are about different          *)
(* variables, so that none undoes what another did.                        *)
(***************************************************************************)
EXTENDS Sampler, SequenceTheorems, TLAPS

Node == Head(pending)

ChoicesAreTyped ==
  \A c \in choices : c.node \in DOMAIN structure /\ TypeOf(c.node) = "decision"

PassedInVain ==
  element > 0 =>
    /\ root # NoNode /\ uniform_rand \in Draws
    /\ \A s \in PrefixSums(Parameters(Node)) :
         acc = s[element - 1] /\ ~Less(uniform_rand, acc)

SInv == SamplerTypeOK /\ ChoicesAreTyped /\ PassedInVain /\ DrawDecides

-----------------------------------------------------------------------------
LEMMA PartsOfConcatenation ==
  ASSUME NEW a \in Seq(Nat), NEW b \in Seq(Nat), NEW S, Range(a \o b) \subseteq S
  PROVE  a \in Seq(S) /\ b \in Seq(S)
<1>1. a \o b \in Seq(Nat) /\ Len(a \o b) = Len(a) + Len(b) /\ Len(a) \in Nat /\ Len(b) \in Nat
  BY ConcatProperties
<1>2. DOMAIN (a \o b) = 1..Len(a) + Len(b) /\ DOMAIN a = 1..Len(a) /\ DOMAIN b = 1..Len(b)
  BY <1>1
<1>3. ASSUME NEW i \in 1..Len(a) PROVE a[i] \in S
  <2>1. a[i] = (a \o b)[i] /\ i \in DOMAIN (a \o b)
    BY <1>1, <1>2
  <2>2. QED
    BY <2>1 DEF Range
<1>4. ASSUME NEW i \in 1..Len(b) PROVE b[i] \in S
  <2>1. Len(a) + i \in DOMAIN (a \o b)
    BY <1>1, <1>2
  <2>2. b[i] = (a \o b)[Len(a) + i]
    BY <1>1
  <2>3. QED
    BY <2>1, <2>2 DEF Range
<1>5. QED
  BY <1>1, <1>2, <1>3, <1>4

\* What is assumed of a node.
LEMMA NodeFacts ==
  ASSUME NEW g \in Structures, NEW n \in DOMAIN g
  PROVE  /\ g[n].primes \in Seq(DOMAIN g) /\ g[n].subs \in Seq(DOMAIN g)
         /\ g[n].primes \in Seq(ChildrenIn(g, n)) /\ g[n].subs \in Seq(ChildrenIn(g, n))
         /\ g[n].type \in {"literal", "top", "decision"} /\ g[n].sign \in BOOLEAN
         /\ g[n].type # "decision" => DOMAIN g[n].primes = {}
         /\ n \in Nat
         /\ Len(g[n].subs) = Len(g[n].primes)
         /\ g[n].parameters \in Seq(Nat)
         /\ g[n].type = "decision" => Len(g[n].parameters) = Len(g[n].primes)
<1>1. IsConformed(g) /\ IsNormalised(g)
  BY PsddGraphAssumption, SamplerAssumption
<1>2. g[n] \in PsddNode /\ ChildrenIn(g, n) \subseteq DOMAIN g
  BY <1>1 DEF IsConformed
<1>3. /\ g[n].primes \in Seq(Nat) /\ g[n].subs \in Seq(Nat) /\ g[n].parameters \in Seq(Nat)
      /\ g[n].type \in {"literal", "top", "decision"} /\ g[n].sign \in BOOLEAN
  BY <1>2 DEF PsddNode
<1>4. Range(g[n].primes \o g[n].subs) \subseteq DOMAIN g
  BY <1>2 DEF ChildrenIn, ChildList
<1>5. g[n].primes \in Seq(DOMAIN g) /\ g[n].subs \in Seq(DOMAIN g)
  BY <1>3, <1>4, PartsOfConcatenation
<1>6. g[n].primes \in Seq(ChildrenIn(g, n)) /\ g[n].subs \in Seq(ChildrenIn(g, n))
  BY <1>3, PartsOfConcatenation DEF ChildrenIn, ChildList
<1>7. n \in Nat /\ (g[n].type # "decision" => DOMAIN g[n].primes = {})
  BY <1>1 DEF IsConformed
<1>8. QED
  BY <1>1, <1>3, <1>5, <1>6, <1>7 DEF IsConformed, IsNormalised

\* A prefix sum of an element is that of the one before and its parameter.
LEMMA NextSum ==
  ASSUME NEW p \in Seq(Nat), NEW s \in PrefixSums(p), NEW i \in 1..Len(p)
  PROVE  s[i] = s[i - 1] + p[i] /\ s[i] \in 0..One /\ s[i - 1] \in 0..One /\ s[0] = 0
<1>1. Len(p) \in Nat /\ One \in Nat
  BY SamplerAssumption
<1>2. /\ s \in [0..Len(p) -> 0..One] /\ s[0] = 0
      /\ \A k \in 1..Len(p) : s[k] = s[k - 1] + p[k]
  BY DEF PrefixSums
<1>3. i \in 0..Len(p) /\ i - 1 \in 0..Len(p)
  BY <1>1
<1>4. QED
  BY <1>2, <1>3

-----------------------------------------------------------------------------
LEMMA InitSInv == Init => SInv
<1> SUFFICES ASSUME Init PROVE SInv
  OBVIOUS
<1>1. One \in Nat
  BY SamplerAssumption
<1>2. QED
  BY <1>1 DEF Init, SInv, SamplerTypeOK, ChoicesAreTyped, PassedInVain, DrawDecides, NoNode

\* What no step of a loop touches.
LEMMA OutsideLoops ==
  ASSUME SInv, element = 0, UNCHANGED <<structure, choices, uniform_rand, acc, element>>,
         pending' \in Seq(DOMAIN structure)
  PROVE  SInv'
  BY DEF SInv, SamplerTypeOK, ChoicesAreTyped, PassedInVain, DrawDecides,
         TypeOf, Parameters, PrefixSums, Less

LEMMA BeginKeepsSInv == SInv /\ Begin => SInv'
<1> SUFFICES ASSUME SInv, Begin PROVE SInv'
  OBVIOUS
<1>1. CASE element = 0
  <2>1. pending' \in Seq(DOMAIN structure)
    BY DEF Begin
  <2>2. QED
    BY <1>1, <2>1, OutsideLoops DEF Begin
<1>2. CASE element > 0
  BY <1>2 DEF SInv, PassedInVain, Begin
<1>3. QED
  BY <1>1, <1>2 DEF SInv, SamplerTypeOK

LEMMA LeafKeepsSInv == SInv /\ (SampleLiteral \/ SampleTop) => SInv'
<1> SUFFICES ASSUME SInv, SampleLiteral \/ SampleTop PROVE SInv'
  OBVIOUS
<1>1. element = 0
  BY DEF SInv, SamplerTypeOK, SampleLiteral, SampleTop, Sampling
<1>2. pending' \in Seq(DOMAIN structure)
  BY DEF SInv, SamplerTypeOK, SampleLiteral, SampleTop, Sampling
<1>3. QED
  BY <1>1, <1>2, OutsideLoops DEF SampleLiteral, SampleTop

\* No number is less than 0, the sum of no parameters.
LEMMA DrawKeepsSInv == SInv /\ Draw => SInv'
<1> SUFFICES ASSUME SInv, Draw PROVE SInv'
  OBVIOUS
<1>1. /\ pending # <<>> /\ TypeOf(Node) = "decision" /\ root # NoNode
      /\ uniform_rand' \in Draws /\ acc' = 0 /\ element' = 1
      /\ UNCHANGED <<structure, root, pending, choices>>
  BY DEF Draw, Sampling, Node
<1>2. Node \in DOMAIN structure /\ structure \in Structures
  BY <1>1 DEF SInv, SamplerTypeOK, Node
<1>3. Len(structure[Node].primes) \in Nat
  BY <1>2, NodeFacts
<1>4. uniform_rand' \in 0..One /\ 0 \in 0..One /\ One \in Nat
  BY <1>1, SamplerAssumption
<1>5. SamplerTypeOK'
  BY <1>1, <1>3, <1>4 DEF SInv, SamplerTypeOK, TypeOf, Node
<1>6. PassedInVain'
  <2>1. ~Less(uniform_rand', 0)
    BY <1>4 DEF Less
  <2>2. \A s \in PrefixSums(Parameters(Node)) : s[0] = 0
    BY DEF PrefixSums
  <2>3. Parameters(Node)' = Parameters(Node) /\ Less(uniform_rand, acc)' = Less(uniform_rand', 0)
    BY <1>1 DEF Parameters, Node, Less
  <2>4. QED
    BY <1>1, <2>1, <2>2, <2>3 DEF PassedInVain, PrefixSums
<1>7. ChoicesAreTyped' /\ DrawDecides'
  BY <1>1 DEF SInv, ChoicesAreTyped, DrawDecides, TypeOf, Parameters, PrefixSums, Less
<1>8. QED
  BY <1>5, <1>6, <1>7 DEF SInv

(***************************************************************************)
(* The element that is tried either is the first whose sum exceeds the     *)
(* draw, or adds its parameter to what was passed in vain.                 *)
(***************************************************************************)
LEMMA TryElementKeepsSInv == SInv /\ TryElement => SInv'
<1> SUFFICES ASSUME SInv, TryElement PROVE SInv'
  OBVIOUS
<1> DEFINE n == Node
           p == Parameters(n)
           sum == acc + p[element]
<1>1. /\ pending # <<>> /\ TypeOf(n) = "decision" /\ root # NoNode
      /\ element > 0 /\ element <= Len(structure[n].primes)
      /\ acc' = sum
      /\ UNCHANGED <<structure, root, uniform_rand>>
  BY DEF TryElement, Sampling, HasElement, Accumulated, Node, Parameters
<1>2. /\ n \in DOMAIN structure /\ structure \in Structures /\ element \in Nat
      /\ pending \in Seq(DOMAIN structure) /\ acc \in 0..One /\ uniform_rand \in 0..One
      /\ One \in Nat
  BY <1>1, SamplerAssumption DEF SInv, SamplerTypeOK, Node
<1>3. /\ structure[n].primes \in Seq(DOMAIN structure) /\ structure[n].subs \in Seq(DOMAIN structure)
      /\ Len(structure[n].subs) = Len(structure[n].primes) /\ Len(p) = Len(structure[n].primes)
      /\ p \in Seq(Nat)
  BY <1>1, <1>2, NodeFacts DEF TypeOf, Parameters
<1>4. \E s \in PrefixSums(p) : s[Len(p)] = One
  <2>1. IsNormalised(structure)
    BY <1>2, SamplerAssumption
  <2>2. QED
    BY <1>1, <1>2, <2>1 DEF IsNormalised, TypeOf, Parameters
<1>5. element \in 1..Len(p)
  BY <1>1, <1>2, <1>3
<1>6. /\ \A s \in PrefixSums(p) : s[element] = sum
      /\ \A s \in PrefixSums(p) : acc = s[element - 1] /\ ~Less(uniform_rand, acc)
      /\ sum \in 0..One /\ uniform_rand \in Draws
  <2>1. /\ \A s \in PrefixSums(p) : acc = s[element - 1] /\ ~Less(uniform_rand, acc)
        /\ uniform_rand \in Draws
    BY <1>1 DEF SInv, PassedInVain
  <2>2. ASSUME NEW s \in PrefixSums(p) PROVE s[element] = sum /\ s[element] \in 0..One
    <3>1. s[element] = s[element - 1] + p[element] /\ s[element] \in 0..One
      BY <1>3, <1>5, NextSum
    <3>2. QED
      BY <2>1, <3>1
  <2>3. QED
    BY <1>4, <2>1, <2>2
<1>7. CASE Less(uniform_rand, sum)
  <2> DEFINE c == [node |-> n, element |-> element, draw |-> uniform_rand]
  <2>1. /\ pending' = <<structure[n].primes[element], structure[n].subs[element]>> \o Tail(pending)
        /\ choices' = choices \cup {c} /\ element' = 0
    BY <1>1, <1>7 DEF TryElement, Node, Less
  <2>2. pending' \in Seq(DOMAIN structure)
    <3>1. structure[n].primes[element] \in DOMAIN structure /\ structure[n].subs[element] \in DOMAIN structure
      BY <1>3, <1>5
    <3>2. <<structure[n].primes[element], structure[n].subs[element]>> \in Seq(DOMAIN structure)
      BY <3>1
    <3>3. QED
      BY <1>1, <1>2, <2>1, <3>2
  <2>3. SamplerTypeOK' /\ PassedInVain'
    BY <1>1, <1>2, <1>6, <2>1, <2>2 DEF SamplerTypeOK, PassedInVain
  <2>4. ChoicesAreTyped'
    BY <1>1, <1>2, <2>1 DEF SInv, ChoicesAreTyped, TypeOf
  <2>5. \A s \in PrefixSums(Parameters(c.node)) :
          Less(c.draw, s[c.element]) /\ ~Less(c.draw, s[c.element - 1])
    BY <1>6, <1>7
  <2>6. DrawDecides'
    <3>1. ASSUME NEW d \in choices', NEW s \in PrefixSums(Parameters(d.node)')
          PROVE  Less(d.draw, s[d.element]) /\ ~Less(d.draw, s[d.element - 1])
      <4>1. Parameters(d.node)' = Parameters(d.node)
        BY <1>1 DEF Parameters
      <4>2. CASE d \in choices
        BY <3>1, <4>1, <4>2 DEF SInv, DrawDecides
      <4>3. CASE d = c
        BY <3>1, <4>1, <4>3, <2>5
      <4>4. QED
        BY <2>1, <4>2, <4>3
    <3>2. QED
      BY <3>1 DEF DrawDecides, PrefixSums, Less
  <2>7. QED
    BY <2>3, <2>4, <2>6 DEF SInv
<1>8. CASE ~Less(uniform_rand, sum)
  <2>1. element' = element + 1 /\ UNCHANGED <<pending, choices>>
    BY <1>1, <1>8 DEF TryElement, Node, Less
  <2>2. element' <= Len(structure[n].primes) + 1 /\ element' - 1 = element
    BY <1>2, <1>3, <1>5, <2>1
  <2>3. SamplerTypeOK'
    BY <1>1, <1>2, <1>6, <2>1, <2>2 DEF SamplerTypeOK, TypeOf, Node
  <2>4. Parameters(Node)' = p /\ Less(uniform_rand, acc)' = Less(uniform_rand, sum)
    BY <1>1, <2>1 DEF Parameters, Node, Less
  <2>5. PassedInVain'
    BY <1>1, <1>6, <1>8, <2>1, <2>2, <2>4 DEF PassedInVain, PrefixSums
  <2>6. ChoicesAreTyped' /\ DrawDecides'
    BY <1>1, <2>1 DEF SInv, ChoicesAreTyped, DrawDecides, TypeOf, Parameters, PrefixSums, Less
  <2>7. QED
    BY <2>3, <2>5, <2>6 DEF SInv
<1>9. QED
  BY <1>7, <1>8

LEMMA ReturnKeepsSInv == SInv /\ Return => SInv'
<1> SUFFICES ASSUME SInv, Return PROVE SInv'
  OBVIOUS
<1>1. element = 0 /\ element' = 0 /\ choices' = {} /\ acc' = 0 /\ uniform_rand' = 0
      /\ UNCHANGED <<structure, pending>>
  BY DEF SInv, SamplerTypeOK, Return, Sampled
<1>2. 0 \in 0..One
  BY SamplerAssumption
<1>3. QED
  BY <1>1, <1>2 DEF SInv, SamplerTypeOK, ChoicesAreTyped, PassedInVain, DrawDecides

LEMMA SamplerKeepsSInv == SInv /\ [Next]_vars => SInv'
<1> SUFFICES ASSUME SInv, [Next]_vars PROVE SInv'
  OBVIOUS
<1>1. CASE UNCHANGED vars
  BY <1>1 DEF SInv, SamplerTypeOK, ChoicesAreTyped, PassedInVain, DrawDecides, vars,
              TypeOf, Parameters, PrefixSums, Less, Node
<1>2. CASE Next
  BY <1>2, BeginKeepsSInv, LeafKeepsSInv, DrawKeepsSInv, TryElementKeepsSInv, ReturnKeepsSInv DEF Next
<1>3. QED
  BY <1>1, <1>2

(***************************************************************************)
(* In every state the parameters passed in vain add up to acc, and each    *)
(* choice is the one that its draw decides.                                *)
(***************************************************************************)
THEOREM SamplerInvariant == Spec => []SInv
  BY InitSInv, SamplerKeepsSInv, PTL DEF Spec

(***************************************************************************)
(* An element is taken by the draws in its share of [0, 1), and no others  *)
(* (psdd_node.cpp:1055-1063), however logarithms are rounded.              *)
(***************************************************************************)
THEOREM DrawsDecide == Spec => []DrawDecides
<1>1. SInv => DrawDecides
  BY DEF SInv
<1>2. QED
  BY <1>1, SamplerInvariant, PTL

\* operator== tells each number that may be drawn from 1.
NoDrawIsOne == \A u \in Draws : hash_value[u] # hash_value[One]

(***************************************************************************)
(* Then some element is always taken: the assertion after the loop         *)
(* (psdd_node.cpp:1065) is only reached by a draw that falls together      *)
(* with 1, as in the run near_one.                                         *)
(***************************************************************************)
THEOREM ElementIsTaken ==
  ASSUME NoDrawIsOne
  PROVE  Spec => []SomeElementIsTaken
<1>1. SInv => SomeElementIsTaken
  <2> SUFFICES ASSUME SInv, Sampling("decision"), ~HasElement PROVE FALSE
    BY DEF SomeElementIsTaken
  <2>1. pending # <<>> /\ TypeOf(Node) = "decision" /\ element \in Nat
        /\ structure \in Structures /\ Node \in DOMAIN structure
    BY DEF SInv, SamplerTypeOK, Sampling, Node
  <2> DEFINE p == Parameters(Node)
  <2>2. Len(p) = Len(structure[Node].primes) /\ p \in Seq(Nat)
    BY <2>1, NodeFacts DEF TypeOf, Parameters
  <2> HIDE DEF p
  <2>3. element > Len(p) /\ Len(p) \in Nat
    <3>1. Len(p) \in Nat
      BY <2>2
    <3>2. ~ (element <= Len(p))
      BY <2>2 DEF HasElement, Node
    <3>3. QED
      BY <2>1, <3>1, <3>2
  <2>4. element > 0
    BY <2>1, <2>3
  <2>5. element - 1 = Len(p)
    <3>1. element <= Len(structure[Node].primes) + 1
      BY <2>4 DEF SInv, SamplerTypeOK, Node
    <3>2. element <= Len(p) + 1
      BY <2>2, <3>1
    <3>3. QED
      BY <2>1, <2>3, <3>2
  <2>6. PICK s \in PrefixSums(p) : s[Len(p)] = One
    <3>1. IsNormalised(structure)
      BY <2>1, SamplerAssumption
    <3>2. QED
      BY <2>1, <3>1 DEF IsNormalised, TypeOf, Parameters, p
  <2>7. acc = One /\ ~Less(uniform_rand, One) /\ uniform_rand \in Draws
    BY <2>4, <2>5, <2>6 DEF SInv, PassedInVain, p
  <2>8. uniform_rand \in 0..One /\ One \in Nat /\ hash_value[uniform_rand] # hash_value[One]
    BY <2>7, SamplerAssumption DEF NoDrawIsOne
  <2>9. uniform_rand < One
    BY <2>8
  <2>10. QED
    BY <2>7, <2>8, <2>9 DEF Less
<1>2. QED
  BY <1>1, SamplerInvariant, PTL

-----------------------------------------------------------------------------
(***************************************************************************)
(* The samples.  Which instantiations are possible is defined by recursion *)
(* over the nodes: it is the least set of nodes closed under CanBe.        *)
(***************************************************************************)
LEMMA PossibleUnfolds ==
  ASSUME NEW g \in Structures, NEW x
  PROVE  \A n \in DOMAIN g : PossibleUnder(g, x)[n] <=> CanBe(g, x, n, PossibleUnder(g, x))
<1> DEFINE N == DOMAIN g
           Leaf(n) == \/ g[n].type = "literal" /\ g[n].sign = (g[n].variable \in x)
                      \/ g[n].type = "top" /\ g[n].parameters[IF g[n].variable \in x THEN 1 ELSE 2] > 0
           Holds(n, S) == \/ Leaf(n)
                          \/ \E i \in DOMAIN g[n].primes :
                               g[n].parameters[i] > 0 /\ g[n].primes[i] \in S /\ g[n].subs[i] \in S
           Closed(S) == \A n \in N : Holds(n, S) => n \in S
           T == {n \in N : \A S \in SUBSET N : Closed(S) => n \in S}
           U == {n \in N : Holds(n, T)}
           f == [n \in N |-> n \in T]
<1>1. \A S \in SUBSET N : Closed(S) => T \subseteq S
  OBVIOUS
<1>2. U \subseteq T
  <2>1. ASSUME NEW n \in N, Holds(n, T), NEW S \in SUBSET N, Closed(S) PROVE n \in S
    <3>1. T \subseteq S
      BY <1>1, <2>1
    <3> HIDE DEF T, Leaf
    <3>2. Holds(n, S)
      BY <2>1, <3>1
    <3>3. QED
      BY <2>1, <3>2
  <2> HIDE DEF Holds, Closed
  <2>2. QED
    BY <2>1
<1>3. T \subseteq U
  <2>1. Closed(U) /\ U \in SUBSET N
    <3> HIDE DEF T, Leaf
    <3>1. QED
      BY <1>2
  <2>2. QED
    BY <1>1, <2>1
<1>4. \A n \in N : n \in T <=> Holds(n, T)
  BY <1>2, <1>3
<1>5. \A n \in N : f[n] = (n \in T)
  OBVIOUS
<1>6. \A n \in N : \A i \in DOMAIN g[n].primes : g[n].primes[i] \in N /\ g[n].subs[i] \in N
  BY NodeFacts
<1> HIDE DEF T
<1>7. \A n \in N : (n \in T) <=> CanBe(g, x, n, f)
  BY <1>4, <1>5, <1>6 DEF CanBe
<1>8. \A n \in N : CanBe(g, x, n, f) \in BOOLEAN
  BY DEF CanBe
<1>9. \A n \in N : (n \in T) = CanBe(g, x, n, f)
  BY <1>7, <1>8
<1>10. f = [n \in DOMAIN g |-> CanBe(g, x, n, f)]
  <2>1. [n \in N |-> n \in T] = [n \in N |-> CanBe(g, x, n, f)]
    BY <1>9, Zenon
  <2>2. QED
    BY <2>1, Zenon
<1> HIDE DEF f
<1>11. \E h : h = [n \in DOMAIN g |-> CanBe(g, x, n, h)]
  BY <1>10, Zenon
<1>12. PossibleUnder(g, x) = [n \in DOMAIN g |-> CanBe(g, x, n, PossibleUnder(g, x))]
  BY <1>11, Zenon DEF PossibleUnder
<1>13. \A n \in DOMAIN g : PossibleUnder(g, x)[n] = CanBe(g, x, n, PossibleUnder(g, x))
  BY <1>12, Zenon
<1>14. QED
  BY <1>13, Zenon

\* The variables under a node, from those under its elements.
LEMMA VariablesOfElements ==
  ASSUME NEW g \in Structures, NEW n \in DOMAIN g
  PROVE  /\ g[n].type # "decision" => g[n].variable \in VariablesUnder(g, n)
         /\ \A i \in DOMAIN g[n].primes :
              /\ VariablesUnder(g, g[n].primes[i]) \subseteq VariablesUnder(g, n)
              /\ VariablesUnder(g, g[n].subs[i]) \subseteq VariablesUnder(g, n)
              /\ VariablesUnder(g, g[n].primes[i]) \cap VariablesUnder(g, g[n].subs[i]) = {}
<1>1. \A m : Range(<<m>>) = {m}
  BY DEF Range
<1>2. \A m \in DOMAIN g : m \in Below(g, <<m>>)
  BY <1>1 DEF Below
<1>3. ASSUME NEW c \in ChildrenIn(g, n) PROVE VariablesUnder(g, c) \subseteq VariablesUnder(g, n)
  <2>1. Below(g, <<c>>) \subseteq Below(g, <<n>>)
    BY <1>1, <1>3 DEF Below, IsClosedIn
  <2>2. QED
    BY <2>1 DEF VariablesUnder
<1>4. \A i \in DOMAIN g[n].primes :
        /\ g[n].primes[i] \in ChildrenIn(g, n) /\ g[n].subs[i] \in ChildrenIn(g, n)
        /\ g[n].primes[i] \in DOMAIN g /\ g[n].subs[i] \in DOMAIN g
  BY NodeFacts
<1>5. \A i \in DOMAIN g[n].primes :
        VariablesUnder(g, g[n].primes[i]) \cap VariablesUnder(g, g[n].subs[i]) = {}
  BY <1>4, DecomposabilityAssumption DEF IsDecomposable
<1>6. g[n].type # "decision" => g[n].variable \in VariablesUnder(g, n)
  BY <1>2 DEF VariablesUnder
<1>7. QED
  BY <1>3, <1>4, <1>5, <1>6

-----------------------------------------------------------------------------
\* The variables still to be sampled; those of different nodes are different.
UnderAny(g, list) == UNION {VariablesUnder(g, n) : n \in Range(list)}
Apart(g, list) ==
  \A i, j \in DOMAIN list : i # j => VariablesUnder(g, list[i]) \cap VariablesUnder(g, list[j]) = {}

\* x has the bits that are sampled, and others that the pending nodes may sample.
Completes(g, list, bits, x) ==
  /\ \A v : v \notin UnderAny(g, list) => (v \in x <=> v \in bits)
  /\ \A n \in Range(list) : PossibleUnder(g, x)[n]

LeadsTo(g, list, bits, r) == \A x : Completes(g, list, bits, x) => PossibleUnder(g, x)[r]

LEMMA HeadAndTail ==
  ASSUME NEW g, NEW list \in Seq(DOMAIN g), list # <<>>
  PROVE  /\ Head(list) \in DOMAIN g /\ Tail(list) \in Seq(DOMAIN g)
         /\ Range(list) = {Head(list)} \cup Range(Tail(list))
         /\ Apart(g, list) => /\ Apart(g, Tail(list))
                              /\ VariablesUnder(g, Head(list)) \cap UnderAny(g, Tail(list)) = {}
<1>1. PICK t : t = Tail(list)
  OBVIOUS
<1>2. /\ Len(list) \in Nat \ {0} /\ DOMAIN list = 1..Len(list)
      /\ t \in Seq(DOMAIN g) /\ DOMAIN t = 1..Len(list) - 1
      /\ \A i \in DOMAIN t : i + 1 \in DOMAIN list /\ t[i] = list[i + 1]
      /\ 1 \in DOMAIN list /\ Head(list) = list[1]
  BY <1>1
<1>3. \A i \in DOMAIN list : i # 1 => i - 1 \in DOMAIN t /\ list[i] = t[i - 1]
  <2>1. ASSUME NEW i \in DOMAIN list, i # 1 PROVE i - 1 \in DOMAIN t /\ (i - 1) + 1 = i
    BY <1>2, <2>1
  <2>2. QED
    BY <1>2, <2>1
<1>4. Range(list) = {Head(list)} \cup Range(t)
  <2>1. \A i \in DOMAIN list : list[i] = Head(list) \/ \E k \in DOMAIN t : list[i] = t[k]
    BY <1>2, <1>3
  <2>2. \A k \in DOMAIN t : \E i \in DOMAIN list : t[k] = list[i]
    BY <1>2
  <2>3. \E i \in DOMAIN list : Head(list) = list[i]
    BY <1>2
  <2>4. /\ \A y : y \in Range(list) <=> \E i \in DOMAIN list : y = list[i]
        /\ \A y : y \in Range(t) <=> \E i \in DOMAIN t : y = t[i]
    BY DEF Range
  <2>5. \A y : y \in Range(list) <=> y = Head(list) \/ y \in Range(t)
    BY <2>1, <2>2, <2>3, <2>4, Zenon
  <2>6. QED
    BY ONLY <2>5
<1>5. ASSUME Apart(g, list) PROVE Apart(g, t)
  <2>1. ASSUME NEW i \in DOMAIN t, NEW j \in DOMAIN t, i # j
        PROVE  VariablesUnder(g, t[i]) \cap VariablesUnder(g, t[j]) = {}
    <3>1. i + 1 # j + 1
      BY <1>2, <2>1
    <3>2. QED
      BY <1>2, <1>5, <3>1 DEF Apart
  <2>2. QED
    BY <2>1 DEF Apart
<1>6. ASSUME Apart(g, list) PROVE VariablesUnder(g, Head(list)) \cap UnderAny(g, t) = {}
  <2>1. ASSUME NEW i \in DOMAIN t PROVE VariablesUnder(g, list[1]) \cap VariablesUnder(g, t[i]) = {}
    <3>1. i + 1 # 1 /\ i + 1 \in DOMAIN list
      BY <1>2
    <3>2. QED
      BY <1>2, <1>6, <3>1 DEF Apart
  <2>2. QED
    BY <1>2, <2>1 DEF UnderAny, Range
<1>7. QED
  BY <1>1, <1>2, <1>4, <1>5, <1>6

LEMMA TwoMore ==
  ASSUME NEW g, NEW list \in Seq(DOMAIN g), NEW a \in DOMAIN g, NEW b \in DOMAIN g
  PROVE  /\ <<a, b>> \o list \in Seq(DOMAIN g)
         /\ Range(<<a, b>> \o list) = {a, b} \cup Range(list)
         /\ /\ Apart(g, list)
            /\ VariablesUnder(g, a) \cap VariablesUnder(g, b) = {}
            /\ VariablesUnder(g, a) \cap UnderAny(g, list) = {}
            /\ VariablesUnder(g, b) \cap UnderAny(g, list) = {}
            => Apart(g, <<a, b>> \o list)
<1>1. PICK m : m = <<a, b>> \o list
  OBVIOUS
<1>2. /\ m \in Seq(DOMAIN g) /\ Len(list) \in Nat /\ DOMAIN list = 1..Len(list)
      /\ Len(m) = Len(list) + 2 /\ DOMAIN m = 1..Len(list) + 2
      /\ m[1] = a /\ m[2] = b
      /\ \A i \in DOMAIN list : i + 2 \in DOMAIN m /\ m[i + 2] = list[i]
  <2>1. <<a, b>> \in Seq(DOMAIN g) /\ Len(<<a, b>>) = 2
    OBVIOUS
  <2>2. m \in Seq(DOMAIN g) /\ Len(m) = 2 + Len(list)
    BY <1>1, <2>1, ConcatProperties
  <2>3. \A i \in 1..2 : m[i] = <<a, b>>[i]
    BY <1>1, <2>1, ConcatProperties
  <2>4. \A i \in DOMAIN list : m[2 + i] = list[i]
    BY <1>1, <2>1, ConcatProperties
  <2>5. QED
    BY <2>2, <2>3, <2>4
<1>3. \A i \in DOMAIN m : i = 1 \/ i = 2 \/ (i - 2 \in DOMAIN list /\ m[i] = list[i - 2])
  <2>1. ASSUME NEW i \in DOMAIN m, i # 1, i # 2 PROVE i - 2 \in DOMAIN list /\ (i - 2) + 2 = i
    BY <1>2, <2>1
  <2>2. QED
    BY <1>2, <2>1
<1>4. Range(m) = {a, b} \cup Range(list)
  <2>1. (\E i \in DOMAIN m : m[i] = a) /\ (\E i \in DOMAIN m : m[i] = b)
    BY <1>2
  <2>2. \A i \in DOMAIN m : m[i] = a \/ m[i] = b \/ \E k \in DOMAIN list : m[i] = list[k]
    BY <1>2, <1>3
  <2>3. \A k \in DOMAIN list : \E i \in DOMAIN m : m[i] = list[k]
    BY <1>2
  <2>4. /\ \A y : y \in Range(list) <=> \E i \in DOMAIN list : y = list[i]
        /\ \A y : y \in Range(m) <=> \E i \in DOMAIN m : y = m[i]
    BY DEF Range
  <2>5. \A y : y \in Range(m) <=> y = a \/ y = b \/ y \in Range(list)
    BY <2>1, <2>2, <2>3, <2>4
  <2>6. QED
    BY ONLY <2>5
<1>5. ASSUME Apart(g, list),
             VariablesUnder(g, a) \cap VariablesUnder(g, b) = {},
             VariablesUnder(g, a) \cap UnderAny(g, list) = {},
             VariablesUnder(g, b) \cap UnderAny(g, list) = {}
      PROVE  Apart(g, m)
  <2>1. \A k \in DOMAIN list : /\ VariablesUnder(g, a) \cap VariablesUnder(g, list[k]) = {}
                               /\ VariablesUnder(g, b) \cap VariablesUnder(g, list[k]) = {}
    BY <1>5 DEF UnderAny, Range
  <2>2. ASSUME NEW i \in DOMAIN m, NEW j \in DOMAIN m, i # j
        PROVE  VariablesUnder(g, m[i]) \cap VariablesUnder(g, m[j]) = {}
    <3>1. CASE i \in {1, 2}
      BY <1>2, <1>3, <1>5, <2>1, <2>2, <3>1
    <3>2. CASE j \in {1, 2}
      BY <1>2, <1>3, <1>5, <2>1, <2>2, <3>2
    <3>3. CASE i \notin {1, 2} /\ j \notin {1, 2}
      <4>1. i - 2 # j - 2
        BY <1>2, <2>2
      <4>2. QED
        BY <1>3, <1>5, <3>3, <4>1 DEF Apart
    <3>4. QED
      BY <3>1, <3>2, <3>3
  <2>3. QED
    BY <2>2 DEF Apart
<1>6. QED
  BY <1>1, <1>2, <1>4, <1>5

\* A leaf that is first samples its variable, which no other node does.
LEMMA LeafSampled ==
  ASSUME NEW g \in Structures, NEW list \in Seq(DOMAIN g), list # <<>>, NEW bits, NEW more, NEW r,
         Apart(g, list), bits \cap UnderAny(g, list) = {},
         g[Head(list)].type # "decision",
         more = bits \/ more = bits \cup {g[Head(list)].variable},
         \A x : (g[Head(list)].variable \in x <=> g[Head(list)].variable \in more) =>
                  CanBe(g, x, Head(list), PossibleUnder(g, x)),
         LeadsTo(g, list, bits, r)
  PROVE  /\ Apart(g, Tail(list)) /\ more \cap UnderAny(g, Tail(list)) = {}
         /\ LeadsTo(g, Tail(list), more, r)
<1>1. PICK n, t : n = Head(list) /\ t = Tail(list)
  OBVIOUS
<1>2. /\ n \in DOMAIN g /\ Range(list) = {n} \cup Range(t) /\ Apart(g, t)
      /\ VariablesUnder(g, n) \cap UnderAny(g, t) = {}
  BY <1>1, HeadAndTail
<1>3. g[n].variable \in VariablesUnder(g, n)
  BY <1>1, <1>2, VariablesOfElements
<1>4. UnderAny(g, list) = VariablesUnder(g, n) \cup UnderAny(g, t)
  BY <1>2 DEF UnderAny
<1>5. more \cap UnderAny(g, t) = {}
  BY <1>1, <1>2, <1>3, <1>4
<1>6. ASSUME NEW x, Completes(g, t, more, x) PROVE PossibleUnder(g, x)[r]
  <2>1. /\ \A v : v \notin UnderAny(g, t) => (v \in x <=> v \in more)
        /\ \A m \in Range(t) : PossibleUnder(g, x)[m]
    BY <1>6 DEF Completes
  <2>2. CanBe(g, x, n, PossibleUnder(g, x))
    BY <1>1, <1>2, <1>3, <2>1
  <2>3. PossibleUnder(g, x)[n]
    BY <1>2, <2>2, PossibleUnfolds
  <2>4. \A v : v \notin UnderAny(g, list) => (v \in x <=> v \in bits)
    BY <1>1, <1>3, <1>4, <2>1
  <2>5. Completes(g, list, bits, x)
    BY <1>2, <2>1, <2>3, <2>4 DEF Completes
  <2>6. QED
    BY <2>5 DEF LeadsTo
<1>7. QED
  BY <1>1, <1>2, <1>5, <1>6 DEF LeadsTo

\* A decision node that is first is replaced by the prime and the sub of an element.
LEMMA ElementSampled ==
  ASSUME NEW g \in Structures, NEW list \in Seq(DOMAIN g), list # <<>>, NEW bits, NEW r,
         Apart(g, list), bits \cap UnderAny(g, list) = {}, LeadsTo(g, list, bits, r),
         NEW i \in DOMAIN g[Head(list)].primes, g[Head(list)].parameters[i] > 0,
         NEW new, new = <<g[Head(list)].primes[i], g[Head(list)].subs[i]>> \o Tail(list)
  PROVE  Apart(g, new) /\ bits \cap UnderAny(g, new) = {} /\ LeadsTo(g, new, bits, r)
<1>1. PICK n, t, a, b : n = Head(list) /\ t = Tail(list) /\ a = g[n].primes[i] /\ b = g[n].subs[i]
  OBVIOUS
<1>2. /\ n \in DOMAIN g /\ t \in Seq(DOMAIN g) /\ Range(list) = {n} \cup Range(t) /\ Apart(g, t)
      /\ VariablesUnder(g, n) \cap UnderAny(g, t) = {}
  BY <1>1, HeadAndTail
<1>3. a \in DOMAIN g /\ b \in DOMAIN g
  <2>1. i \in DOMAIN g[n].primes
    BY <1>1
  <2>2. /\ g[n].primes \in Seq(DOMAIN g) /\ g[n].subs \in Seq(DOMAIN g)
        /\ Len(g[n].subs) = Len(g[n].primes)
    BY <1>2, NodeFacts
  <2>3. QED
    BY <1>1, <2>1, <2>2
<1>4. /\ VariablesUnder(g, a) \subseteq VariablesUnder(g, n)
      /\ VariablesUnder(g, b) \subseteq VariablesUnder(g, n)
      /\ VariablesUnder(g, a) \cap VariablesUnder(g, b) = {}
  BY <1>1, <1>2, VariablesOfElements
<1>5. Range(new) = {a, b} \cup Range(t) /\ Apart(g, new)
  <2>1. /\ VariablesUnder(g, a) \cap UnderAny(g, t) = {}
        /\ VariablesUnder(g, b) \cap UnderAny(g, t) = {}
    BY <1>2, <1>4
  <2>2. new = <<a, b>> \o t
    BY <1>1
  <2>3. Range(<<a, b>> \o t) = {a, b} \cup Range(t) /\ Apart(g, <<a, b>> \o t)
    BY ONLY <1>2, <1>3, <1>4, <2>1, TwoMore
  <2>4. QED
    BY <2>2, <2>3, Zenon
<1>6. UnderAny(g, new) \subseteq UnderAny(g, list)
  <2>1. UnderAny(g, list) = VariablesUnder(g, n) \cup UnderAny(g, t)
    BY <1>2 DEF UnderAny
  <2>2. UnderAny(g, new) = VariablesUnder(g, a) \cup VariablesUnder(g, b) \cup UnderAny(g, t)
    BY <1>5 DEF UnderAny
  <2>3. QED
    BY <1>4, <2>1, <2>2
<1>7. ASSUME NEW x, Completes(g, new, bits, x) PROVE PossibleUnder(g, x)[r]
  <2>1. /\ \A v : v \notin UnderAny(g, new) => (v \in x <=> v \in bits)
        /\ \A m \in Range(new) : PossibleUnder(g, x)[m]
    BY <1>7 DEF Completes
  <2>2. CanBe(g, x, n, PossibleUnder(g, x))
    BY <1>1, <1>5, <2>1 DEF CanBe
  <2>3. PossibleUnder(g, x)[n]
    BY <1>2, <2>2, PossibleUnfolds
  <2>4. Completes(g, list, bits, x)
    BY <1>2, <1>5, <1>6, <2>1, <2>3 DEF Completes
  <2>5. QED
    BY <2>4 DEF LeadsTo
<1>8. QED
  BY <1>5, <1>6, <1>7 DEF LeadsTo

-----------------------------------------------------------------------------
(***************************************************************************)
(* Whatever the nodes that are still to be sampled do, the node asked is   *)
(* possible under what comes out if they are.                              *)
(***************************************************************************)
BitsLead ==
  /\ root = NoNode => pending = <<>> /\ instantiation = {}
  /\ root # NoNode => /\ root \in DOMAIN structure /\ Apart(structure, pending)
                      /\ instantiation \cap UnderAny(structure, pending) = {}
                      /\ LeadsTo(structure, pending, instantiation, root)

LEMMA BeginKeepsBits ==
  ASSUME SInv, BitsLead, Begin
  PROVE  BitsLead'
<1>1. PICK g, r : g = structure /\ r = root'
  OBVIOUS
<1>2. /\ g \in Structures /\ r \in DOMAIN g /\ pending' = <<r>> /\ instantiation' = {}
      /\ structure' = g
  BY <1>1 DEF SInv, SamplerTypeOK, BitsLead, Begin
<1>3. r # NoNode
  BY <1>2, NodeFacts DEF NoNode
<1>4. Range(<<r>>) = {r} /\ Apart(g, <<r>>)
  BY DEF Range, Apart
<1>5. LeadsTo(g, <<r>>, {}, r)
  BY <1>4 DEF LeadsTo, Completes
<1>6. QED
  BY <1>1, <1>2, <1>3, <1>4, <1>5 DEF BitsLead, NoNode

LEMMA LeafKeepsBits ==
  ASSUME NoDrawIsOne, SInv, BitsLead, SampleLiteral \/ SampleTop
  PROVE  BitsLead'
<1>1. PICK g, list, n, bits, more, r :
        /\ g = structure /\ list = pending /\ n = Head(list) /\ bits = instantiation
        /\ more = instantiation' /\ r = root
  OBVIOUS
<1>2. /\ g \in Structures /\ list \in Seq(DOMAIN g) /\ list # <<>> /\ n \in DOMAIN g
      /\ g[n].type \in {"literal", "top"} /\ r # NoNode
      /\ structure' = g /\ root' = r /\ pending' = Tail(list)
  BY <1>1 DEF SInv, SamplerTypeOK, SampleLiteral, SampleTop, Sampling, TypeOf
<1>3. /\ r \in DOMAIN g /\ Apart(g, list) /\ bits \cap UnderAny(g, list) = {}
      /\ LeadsTo(g, list, bits, r)
  BY <1>1, <1>2 DEF BitsLead
<1>4. g[n].variable \notin bits
  <2>1. Range(list) = {n} \cup Range(Tail(list))
    BY <1>1, <1>2, HeadAndTail
  <2>2. g[n].variable \in VariablesUnder(g, n)
    BY <1>2, VariablesOfElements
  <2>3. QED
    BY <1>3, <2>1, <2>2 DEF UnderAny
<1>5. /\ more = bits \/ more = bits \cup {g[n].variable}
      /\ \A x : (g[n].variable \in x <=> g[n].variable \in more) => CanBe(g, x, n, PossibleUnder(g, x))
  <2>1. CASE SampleLiteral
    <3>1. /\ g[n].type = "literal" /\ g[n].sign \in BOOLEAN
          /\ more = IF g[n].sign THEN bits \cup {g[n].variable} ELSE bits
      BY <1>1, <1>2, <2>1, NodeFacts DEF SampleLiteral, Sampling, TypeOf, WithBit, Variable
    <3>2. QED
      BY <1>4, <3>1 DEF CanBe
  <2>2. CASE SampleTop
    <3>1. PICK u \in Draws : /\ g[n].type = "top"
                             /\ more = IF Less(u, g[n].parameters[1]) THEN bits \cup {g[n].variable} ELSE bits
      BY <1>1, <2>2 DEF SampleTop, Sampling, TypeOf, WithBit, Variable, TrueParameter, Parameters
    <3>2. g[n].parameters \in Seq(Nat) /\ Len(g[n].parameters) = 2 /\ One \in Nat /\ u \in 0..One
      BY <1>2, <3>1, NodeFacts, SamplerAssumption DEF IsNormalised
    <3>3. g[n].parameters[1] \in Nat /\ g[n].parameters[2] \in Nat
          /\ g[n].parameters[1] + g[n].parameters[2] = One
      <4>1. PICK s \in PrefixSums(g[n].parameters) : s[Len(g[n].parameters)] = One
        BY <1>2, <3>1, SamplerAssumption DEF IsNormalised
      <4>2. s[1] = s[0] + g[n].parameters[1] /\ s[2] = s[1] + g[n].parameters[2] /\ s[0] = 0 /\ s[2] = One
        BY <3>2, <4>1 DEF PrefixSums
      <4>3. g[n].parameters[1] \in Nat /\ g[n].parameters[2] \in Nat
        BY <3>2
      <4>4. QED
        BY <4>2, <4>3
    <3>4. Less(u, g[n].parameters[1]) => g[n].parameters[1] > 0
      BY <3>2, <3>3 DEF Less
    <3>5. ~Less(u, g[n].parameters[1]) => g[n].parameters[2] > 0
      <4>1. SUFFICES ASSUME g[n].parameters[2] = 0 PROVE Less(u, g[n].parameters[1])
        BY <3>3
      <4>2. g[n].parameters[1] = One /\ hash_value[u] # hash_value[One]
        BY <3>3, <4>1 DEF NoDrawIsOne
      <4>3. u < One
        BY <3>2, <4>2
      <4>4. QED
        BY <4>2, <4>3 DEF Less
    <3>6. QED
      BY <1>4, <3>1, <3>4, <3>5 DEF CanBe
  <2>3. QED
    BY <2>1, <2>2
<1>6. /\ Apart(g, Tail(list)) /\ more \cap UnderAny(g, Tail(list)) = {}
      /\ LeadsTo(g, Tail(list), more, r)
  BY <1>1, <1>2, <1>3, <1>5, LeafSampled
<1>7. QED
  BY <1>1, <1>2, <1>3, <1>6 DEF BitsLead, NoNode

LEMMA TryElementKeepsBits ==
  ASSUME SInv, SInv', BitsLead, TryElement
  PROVE  BitsLead'
<1>1. PICK g, list, n, i : g = structure /\ list = pending /\ n = Head(list) /\ i = element
  OBVIOUS
<1>2. /\ g \in Structures /\ list \in Seq(DOMAIN g) /\ list # <<>> /\ n \in DOMAIN g /\ root # NoNode
      /\ g[n].type = "decision" /\ i \in Nat /\ i > 0 /\ i <= Len(g[n].primes)
      /\ UNCHANGED <<structure, root, instantiation>>
  BY <1>1 DEF SInv, SamplerTypeOK, TryElement, Sampling, HasElement, TypeOf
<1>3. CASE pending' = pending
  BY <1>2, <1>3 DEF BitsLead, NoNode
<1>4. CASE pending' # pending
  <2>1. /\ pending' = <<g[n].primes[i], g[n].subs[i]>> \o Tail(list)
        /\ [node |-> n, element |-> i, draw |-> uniform_rand] \in choices'
    BY <1>1, <1>4 DEF TryElement
  <2>2. i \in DOMAIN g[n].primes /\ i \in 1..Len(g[n].parameters) /\ g[n].parameters \in Seq(Nat)
    <3>1. /\ g[n].primes \in Seq(DOMAIN g) /\ g[n].parameters \in Seq(Nat)
          /\ Len(g[n].parameters) = Len(g[n].primes)
      BY <1>2, NodeFacts
    <3>2. QED
      BY <1>2, <3>1
  <2>3. g[n].parameters[i] > 0
    <3>1. PICK s \in PrefixSums(g[n].parameters) : TRUE
      BY <1>2, SamplerAssumption DEF IsNormalised
    <3>2. PICK c \in choices' : c.node = n /\ c.element = i
      BY <2>1
    <3>3. s \in PrefixSums(Parameters(c.node)')
      BY <1>1, <1>2, <3>1, <3>2 DEF Parameters
    <3>4. Less(c.draw, s[c.element]) /\ ~ Less(c.draw, s[c.element - 1])
      BY <3>2, <3>3 DEF SInv, DrawDecides, PrefixSums, Less
    <3>5. s[i] # s[i - 1]
      BY <3>2, <3>4
    <3>6. s[i] = s[i - 1] + g[n].parameters[i] /\ s[i - 1] \in 0..One /\ One \in Nat
      BY <2>2, <3>1, NextSum, SamplerAssumption
    <3>7. g[n].parameters[i] \in Nat
      BY <2>2
    <3>8. QED
      BY <3>5, <3>6, <3>7
  <2>4. /\ Apart(g, list) /\ instantiation \cap UnderAny(g, list) = {} /\ root \in DOMAIN g
        /\ LeadsTo(g, list, instantiation, root)
    BY <1>1, <1>2 DEF BitsLead
  <2>5. PICK new, bits, r : new = pending' /\ bits = instantiation /\ r = root
    OBVIOUS
  <2>6. /\ i \in DOMAIN g[Head(list)].primes /\ g[Head(list)].parameters[i] > 0
        /\ new = <<g[Head(list)].primes[i], g[Head(list)].subs[i]>> \o Tail(list)
    BY <1>1, <2>1, <2>2, <2>3, <2>5
  <2>7. Apart(g, new) /\ bits \cap UnderAny(g, new) = {} /\ LeadsTo(g, new, bits, r)
    BY <1>2, <2>4, <2>5, <2>6, ElementSampled
  <2>8. QED
    BY <1>1, <1>2, <2>4, <2>5, <2>7 DEF BitsLead, NoNode
<1>5. QED
  BY <1>3, <1>4

\* The invariant of the samples; a step of it needs the elements taken by SInv.
BInv == SInv /\ BitsLead

\* Between any two steps the elements taken are those of the draws, and the nodes on
\* the list lead from the bits set so far to an instantiation of the root.
THEOREM BitsInvariant ==
  ASSUME NoDrawIsOne
  PROVE  Spec => []BInv
<1>1. Init => BInv
  BY InitSInv DEF Init, BInv, BitsLead
<1>2. BInv /\ [Next]_vars => BInv'
  <2>1. SUFFICES ASSUME BInv, [Next]_vars PROVE BitsLead'
    BY SamplerKeepsSInv DEF BInv
  <2>2. SInv /\ SInv' /\ BitsLead
    BY <2>1, SamplerKeepsSInv DEF BInv
  <2>3. CASE Begin
    BY <2>2, <2>3, BeginKeepsBits
  <2>4. CASE SampleLiteral \/ SampleTop
    BY <2>2, <2>4, LeafKeepsBits
  <2>5. CASE TryElement
    BY <2>2, <2>5, TryElementKeepsBits
  <2>6. CASE Draw \/ UNCHANGED vars
    BY <2>2, <2>6 DEF Draw, vars, BitsLead, NoNode
  <2>7. CASE Return
    BY <2>2, <2>7 DEF Return, Sampled, BitsLead, NoNode
  <2>8. QED
    BY <2>1, <2>3, <2>4, <2>5, <2>6, <2>7 DEF Next
<1>3. QED
  BY <1>1, <1>2, PTL DEF Spec

(***************************************************************************)
(* Elements are taken by the draws in their share, and what comes out is   *)
(* an instantiation the distribution has (psdd_node.cpp:918-924,           *)
(* 1047-1066, 1130-1138): where no draw falls together with 1, as then a   *)
(* true node that is certainly true could be sampled as false.             *)
(***************************************************************************)
THEOREM SamplingIsRight ==
  ASSUME NoDrawIsOne
  PROVE  Spec => []SamplesAreRight
<1>1. BInv => SamplesAreRight
  <2>1. SUFFICES ASSUME BInv, Sampled PROVE IsPossible(instantiation)
    BY DEF BInv, SInv, SamplesAreRight, SampleIsPossible
  <2>2. pending = <<>> /\ LeadsTo(structure, pending, instantiation, root)
    BY <2>1 DEF BInv, BitsLead, Sampled
  <2>3. Completes(structure, pending, instantiation, instantiation)
    <3>1. Range(pending) = {}
      BY <2>2 DEF Range
    <3>2. QED
      BY <3>1 DEF Completes
  <2>4. QED
    BY <2>2, <2>3 DEF LeadsTo, IsPossible
<1>2. QED
  BY <1>1, BitsInvariant, PTL

=============================================================================
