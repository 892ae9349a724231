------------------------------- MODULE Sampler -------------------------------
(***************************************************************************)
(* DirectSample: an instantiation of the variables of a PSDD, drawn at     *)
(* random.  A node samples itself: a decision node draws a number, goes    *)
(* through its elements until their parameters add up to more, and has the *)
(* prime and the sub of that element sample themselves.                    *)
(*                                                                         *)
(* A probability is an integer, in units of which One make 1.  Two         *)
(* PsddParameters are equal if their hash values are, the logarithms cut   *)
(* off after seven decimals: hash_value says which numbers fall together.  *)
(* (Of the double itself sums are exact here: their rounding is far below  *)
(* the seventh decimal.)                                                   *)
(***************************************************************************)
EXTENDS PsddGraph

CONSTANTS One,
          hash_value,   \* of each number
          Draws         \* what the generator may return, moved to [0, 1)

\* The sums of the parameters in front of each element.
PrefixSums(p) ==
  {s \in [0..Len(p) -> 0..One] : s[0] = 0 /\ \A i \in 1..Len(p) : s[i] = s[i - 1] + p[i]}

IsNormalised(g) ==
  \A n \in DOMAIN g :
    /\ g[n].type = "top" => Len(g[n].parameters) = 2
    /\ g[n].type = "decision" => Len(g[n].parameters) = Len(g[n].primes)
    /\ g[n].type # "literal" => \E s \in PrefixSums(g[n].parameters) :
                                  s[Len(g[n].parameters)] = One

ASSUME SamplerAssumption ==
         /\ One \in Nat \ {0}
         /\ hash_value \in [0..One -> Int]
         /\ \A u, v \in 0..One : u <= v => hash_value[u] <= hash_value[v]
         /\ Draws \subseteq 0..One
         /\ \A g \in Structures : IsNormalised(g)

VARIABLES structure,      \* the nodes of the manager
          root,           \* the node a client asked, or NoNode
          pending,        \* the nodes still to sample, by calls not yet made
          uniform_rand, acc, element,   \* locals of a decision node's loop; element is 0 outside it
          instantiation,  \* the bits that are set
          choices         \* history: the draws, and the elements they made decision nodes take

vars == <<structure, root, pending, uniform_rand, acc, element, instantiation, choices>>

NoNode == -1

Init ==
  /\ structure \in Structures
  /\ root = NoNode /\ pending = <<>>
  /\ uniform_rand = 0 /\ acc = 0 /\ element = 0
  /\ instantiation = {} /\ choices = {}

TypeOf(n) == structure[n].type
Variable(n) == structure[n].variable
Parameters(n) == structure[n].parameters
TrueParameter(n) == Parameters(n)[1]

\* operator<: equal numbers are those with equal hash values.
Less(u, v) == hash_value[u] # hash_value[v] /\ u < v

Sampling(type) == root # NoNode /\ pending # <<>> /\ TypeOf(Head(pending)) = type

\* A client asks a node, with no bit set.
Begin ==
  /\ root = NoNode
  /\ root' \in DOMAIN structure
  /\ pending' = <<root'>>
  /\ UNCHANGED <<structure, uniform_rand, acc, element, instantiation, choices>>

WithBit(n, b) == IF b THEN instantiation \cup {Variable(n)} ELSE instantiation

SampleLiteral ==
  /\ Sampling("literal")
  /\ instantiation' = WithBit(Head(pending), structure[Head(pending)].sign)
  /\ pending' = Tail(pending)
  /\ UNCHANGED <<structure, root, uniform_rand, acc, element, choices>>

SampleTop ==
  /\ Sampling("top")
  /\ \E u \in Draws : instantiation' = WithBit(Head(pending), Less(u, TrueParameter(Head(pending))))
  /\ pending' = Tail(pending)
  /\ UNCHANGED <<structure, root, uniform_rand, acc, element, choices>>

Draw ==
  /\ Sampling("decision") /\ element = 0
  /\ uniform_rand' \in Draws
  /\ acc' = 0 /\ element' = 1
  /\ UNCHANGED <<structure, root, pending, instantiation, choices>>

OnlyThis(n, i) == Parameters(n)[i]
SumBefore(n, i) == IF i = 1 THEN 0 ELSE acc + Parameters(n)[i - 1]
Accumulated(n, i) == acc + Parameters(n)[i]

HasElement == element <= Len(structure[Head(pending)].primes)

\* The next element: it is taken, or the loop goes on.
TryElement ==
  /\ Sampling("decision") /\ element > 0 /\ HasElement
  /\ LET n == Head(pending) IN
       /\ acc' = Accumulated(n, element)
       /\ \/ /\ Less(uniform_rand, acc')
             /\ pending' = <<structure[n].primes[element], structure[n].subs[element]>> \o Tail(pending)
             /\ choices' = choices \cup {[node |-> n, element |-> element, draw |-> uniform_rand]}
             /\ element' = 0
          \/ /\ ~Less(uniform_rand, acc')
             /\ element' = element + 1
             /\ UNCHANGED <<pending, choices>>
  /\ UNCHANGED <<structure, root, uniform_rand, instantiation>>

\* The call has returned, and the client looks at the bits.
Sampled == root # NoNode /\ pending = <<>>

Return ==
  /\ Sampled
  /\ root' = NoNode /\ instantiation' = {} /\ choices' = {}
  /\ uniform_rand' = 0 /\ acc' = 0
  /\ UNCHANGED <<structure, pending, element>>

Next == Begin \/ SampleLiteral \/ SampleTop \/ Draw \/ TryElement \/ Return

Spec == Init /\ [][Next]_vars

-----------------------------------------------------------------------------
\* The state has its types; a loop never passes the end of the elements by more than one.
SamplerTypeOK ==
  /\ structure \in Structures
  /\ pending \in Seq(DOMAIN structure)
  /\ uniform_rand \in 0..One /\ acc \in 0..One
  /\ element \in Nat
  /\ element > 0 => /\ pending # <<>> /\ TypeOf(Head(pending)) = "decision"
                    /\ element <= Len(structure[Head(pending)].primes) + 1

(***************************************************************************)
(* Of the numbers that can be drawn, each element is taken by those that   *)
(* lie in its share of [0, 1), up to the numbers operator== takes for the  *)
(* same: an element is taken as often as its parameter says.               *)
(***************************************************************************)
DrawDecides ==
  \A c \in choices : \A s \in PrefixSums(Parameters(c.node)) :
    Less(c.draw, s[c.element]) /\ ~Less(c.draw, s[c.element - 1])

\* The instantiations of positive probability.
CanBe(g, x, n, possible) ==
  \/ g[n].type = "literal" /\ g[n].sign = (g[n].variable \in x)
  \/ g[n].type = "top" /\ g[n].parameters[IF g[n].variable \in x THEN 1 ELSE 2] > 0
  \/ \E i \in DOMAIN g[n].primes :
       g[n].parameters[i] > 0 /\ possible[g[n].primes[i]] /\ possible[g[n].subs[i]]

PossibleUnder(g, x) == LET possible[n \in DOMAIN g] == CanBe(g, x, n, possible) IN possible
IsPossible(x) == PossibleUnder(structure, x)[root]

(***************************************************************************)
(* A sample is one the distribution has: the bits that all the nodes on    *)
(* the way set, or leave, have together a positive probability.            *)
(***************************************************************************)
SampleIsPossible == Sampled => IsPossible(instantiation)

SamplesAreRight == DrawDecides /\ SampleIsPossible

(***************************************************************************)
(* "assert(false)" after the loop (psdd_node.cpp:1065): the sum of all     *)
(* parameters exceeds any number drawn.                                    *)
(***************************************************************************)
SomeElementIsTaken == Sampling("decision") => HasElement

=============================================================================
