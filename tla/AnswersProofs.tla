---------------------------- MODULE AnswersProofs ----------------------------
(***************************************************************************)
(* What the questions keep, and their answers, for any PSDDs and any       *)
(* sequence of calls.  First, that no loop reads a value that this call    *)
(* has not computed, and that a call leaves no flag up and no scratch word *)
(* behind: as for learning, the argument is at which place of the list a   *)
(* loop is, for flags, scratch words and the local map belong to the nodes *)
(* from some place on, or up to it.  Then, that what the loops compute node*)
(* by node is what the PSDD means, instantiation by instantiation, that a  *)
(* solution is a best one, that a file is read back as the PSDD that was   *)
(* written, and that marginals are fractions of the probability.           *)
(***************************************************************************)
EXTENDS NodeQueries, SerializerProofs, FiniteSetTheorems

Queries == {"IsConsistent", "Evaluate", "ModelCount", "GetMPESolution",
            "GetMarginals", "WritePsddToFile"}
UsesMap == query \in {"Evaluate", "ModelCount"}
KeepsPlaces == query \in {"GetMarginals", "WritePsddToFile"}
IsSet(n) == user_data[n] # <<>>

Control ==
  /\ pass \in {"none", "serialize", "up", "extract", "number", "down", "reset", "return"}
  /\ position \in Nat /\ position <= Len(result) + 1
  /\ pass = "up" => position <= Len(result) /\ query # "GetMarginals"
  /\ pass \in {"number", "down", "reset"} => position >= 1
  /\ pass \in {"number", "down"} => query = "GetMarginals"
  /\ pass = "extract" => query = "GetMPESolution"
  /\ pass = "reset" => ~UsesMap
  /\ query \in Queries \cup {"none"}
  /\ query = "none" <=> pass = "none"
  /\ pass = "none" => roots = <<>> /\ Start
  /\ query # "none" => roots # <<>>
  /\ pass # "serialize" => Serialized

FlagsFollowPass ==
  IF query = "IsConsistent" /\ pass = "up" THEN activation_flag \subseteq FromOn(position + 1)
  ELSE IF query = "IsConsistent" /\ pass = "reset" THEN activation_flag \subseteq FromOn(position)
  ELSE activation_flag = {}

\* The nodes whose scratch words are set.
SetNodes ==
  CASE pass = "up" /\ query \in {"GetMPESolution", "WritePsddToFile"} -> FromOn(position + 1)
    [] pass \in {"extract", "down"} -> Range(result)
    [] pass = "number" -> Range(result) \ FromOn(position)
    [] pass = "reset" /\ query # "IsConsistent" -> FromOn(position)
    [] OTHER -> {}

ScratchFollowsPass ==
  /\ DOMAIN user_data = Nodes
  /\ \A n \in Nodes : IsSet(n) <=> n \in SetNodes

ScratchIsTyped ==
  \A n \in Nodes : IsSet(n) =>
    /\ query = "GetMPESolution" => /\ user_data[n] \in Nat \X Nat
                                   /\ TypeOf(n) = "decision" => user_data[n][2] \in Elements(n)
    /\ KeepsPlaces => \E k \in 0..Len(result) - 1 : user_data[n] = <<k>>

MapFollowsPass ==
  /\ DOMAIN cache \subseteq Nodes
  /\ pass \in {"none", "serialize"} => DOMAIN cache = {}
  /\ pass = "up" /\ UsesMap => DOMAIN cache = FromOn(position + 1)
  /\ DOMAIN derivatives \subseteq Nat

QueueIsListed ==
  /\ node_queue \in Seq(Nodes)
  /\ pass = "extract" => Range(node_queue) \subseteq Range(result)

QInv == /\ SInv /\ Control /\ FlagsFollowPass /\ ScratchFollowsPass
        /\ ScratchIsTyped /\ MapFollowsPass /\ QueueIsListed

-----------------------------------------------------------------------------
\* Finitely many numbers have a largest one, and the largest a first place.
LEMMA FirstLargest ==
  ASSUME NEW k \in Nat, k # 0, NEW f \in [1..k -> Nat]
  PROVE  \E i \in 1..k : /\ \A j \in 1..k : f[j] <= f[i]
                         /\ \A j \in 1..k : j < i => f[j] < f[i]
<1> DEFINE IsLargest(i, m) == \A j \in 1..m : f[j] <= f[i]
           T == {m \in 1..k : ~ \E i \in 1..m : IsLargest(i, m)}
<1>1. T = {}
  <2>1. SUFFICES ASSUME T # {} PROVE FALSE
    OBVIOUS
  <2>2. T \in SUBSET Nat
    OBVIOUS
  <2>3. PICK m \in T : \A y \in T : m <= y
    <3> HIDE DEF T
    <3>1. QED
      BY <2>1, <2>2, LeastOf
  <2>4. m \in 1..k /\ ~ \E i \in 1..m : IsLargest(i, m)
    BY <2>3
  <2>5. m # 1
    <3>1. SUFFICES ASSUME m = 1 PROVE FALSE
      OBVIOUS
    <3>2. 1 \in 1..m /\ f[1] \in Nat /\ \A j \in 1..m : j = 1
      BY <2>4, <3>1
    <3>3. IsLargest(1, m)
      <4>1. \A j \in 1..m : f[j] = f[1]
        BY <3>2
      <4>2. f[1] <= f[1]
        BY <3>2
      <4>3. QED
        BY <4>1, <4>2
    <3>4. \E i \in 1..m : IsLargest(i, m)
      <4> HIDE DEF IsLargest
      <4>1. QED
        BY <3>2, <3>3
    <3>5. QED
      BY <2>4, <3>4
  <2>6. m - 1 \in 1..k /\ m - 1 \notin T
    <3>1. m - 1 \in 1..k /\ ~ m <= m - 1
      BY <2>4, <2>5
    <3>2. QED
      <4> HIDE DEF T
      <4>1. QED
        BY <2>3, <3>1
  <2>7. PICK i \in 1..m - 1 : IsLargest(i, m - 1)
    BY <2>6
  <2>8. /\ \A j \in 1..m : j \in 1..m - 1 \/ j = m
        /\ i \in 1..m /\ m \in 1..m
        /\ f[i] \in Nat /\ f[m] \in Nat
    BY <2>4, <2>5
  <2>9. \A j \in 1..m - 1 : f[j] \in Nat /\ f[j] <= f[i]
    BY <2>4, <2>7
  <2>10. CASE f[m] <= f[i]
    <3>1. IsLargest(i, m)
      BY <2>8, <2>9, <2>10
    <3>2. QED
      <4> HIDE DEF IsLargest
      <4>1. QED
        BY <2>4, <2>8, <3>1
  <2>11. CASE ~ f[m] <= f[i]
    <3>1. IsLargest(m, m)
      BY <2>8, <2>9, <2>11
    <3>2. QED
      <4> HIDE DEF IsLargest
      <4>1. QED
        BY <2>4, <2>8, <3>1
  <2>12. QED
    BY <2>10, <2>11
<1>2. PICK l \in 1..k : IsLargest(l, k)
  <2>1. k \in 1..k
    OBVIOUS
  <2>2. k \notin T
    <3> HIDE DEF T
    <3>1. QED
      BY <1>1
  <2>3. QED
    BY <2>1, <2>2
<1> DEFINE S == {i \in 1..k : IsLargest(i, k)}
<1>3. S \in SUBSET Nat /\ S # {}
  BY <1>2
<1>4. PICK i \in S : \A y \in S : i <= y
  <2> HIDE DEF S
  <2>1. QED
    BY <1>3, LeastOf
<1>5. i \in 1..k /\ IsLargest(i, k)
  BY <1>4
<1>6. ASSUME NEW j \in 1..k, j < i
      PROVE  f[j] < f[i]
  <2>1. j \notin S
    BY <1>4, <1>5, <1>6
  <2>2. PICK q \in 1..k : ~ f[q] <= f[j]
    BY <2>1
  <2>3. f[q] <= f[i] /\ f[q] \in Nat /\ f[j] \in Nat /\ f[i] \in Nat
    BY <1>5
  <2>4. QED
    BY <2>2, <2>3
<1>7. QED
  BY <1>5, <1>6

-----------------------------------------------------------------------------
\* What is assumed of a node.
LEMMA NodeFacts ==
  ASSUME structure \in Structures, NEW n \in Nodes
  PROVE  /\ TypeOf(n) \in {"literal", "top", "decision"}
         /\ \A i \in DOMAIN Parameters(n) : Parameters(n)[i] \in Nat
         /\ TypeOf(n) = "top" => DOMAIN Parameters(n) = 1..2
         /\ TypeOf(n) = "decision" => DOMAIN Parameters(n) = Elements(n)
         /\ \E k \in Nat : Elements(n) = 1..k /\ (TypeOf(n) = "decision" => k # 0)
         /\ \A i \in Elements(n) : {Primes(n)[i], Subs(n)[i]} \subseteq ChildrenIn(structure, n)
<1>1. /\ structure[n] \in PsddNode /\ Len(structure[n].primes) = Len(structure[n].subs)
  BY PsddGraphAssumption DEF IsConformed, Nodes
<1>2. /\ TypeOf(n) = "top" => Len(Parameters(n)) = 2
      /\ TypeOf(n) = "decision" => Primes(n) # <<>> /\ Len(Parameters(n)) = Len(Primes(n))
  BY NodeQueriesAssumption DEF IsNormalised, Nodes, TypeOf, Parameters, Primes
<1>3. /\ TypeOf(n) \in {"literal", "top", "decision"}
      /\ Primes(n) \in Seq(Nat) /\ Subs(n) \in Seq(Nat) /\ Parameters(n) \in Seq(Nat)
      /\ Len(Primes(n)) = Len(Subs(n))
  BY <1>1 DEF PsddNode, TypeOf, Primes, Subs, Parameters
<1>4. /\ Len(Primes(n)) \in Nat /\ Elements(n) = 1..Len(Primes(n))
      /\ Primes(n) # <<>> => Len(Primes(n)) # 0
      /\ DOMAIN Parameters(n) = 1..Len(Parameters(n))
  BY <1>3 DEF Elements
<1>5. ASSUME NEW i \in Elements(n)
      PROVE  {Primes(n)[i], Subs(n)[i]} \subseteq ChildrenIn(structure, n)
  <2>1. {Primes(n)[i], Subs(n)[i]} \subseteq Range(Primes(n) \o Subs(n))
    BY <1>3, <1>5, InConcatenation DEF Elements
  <2>2. QED
    BY <2>1 DEF ChildrenIn, ChildList, Primes, Subs
<1>6. QED
  BY <1>2, <1>3, <1>4, <1>5

LEMMA BestIsElement ==
  ASSUME structure \in Structures, NEW n \in Nodes, TypeOf(n) = "decision",
         \A i \in Elements(n) : Product(n, i) \in Nat
  PROVE  Best(n) \in Elements(n)
<1>1. PICK k \in Nat : Elements(n) = 1..k /\ k # 0
  BY NodeFacts
<1> DEFINE f == [i \in 1..k |-> Product(n, i)]
<1>2. f \in [1..k -> Nat]
  BY <1>1
<1>3. PICK i \in 1..k : /\ \A j \in 1..k : f[j] <= f[i]
                        /\ \A j \in 1..k : j < i => f[j] < f[i]
  <2> HIDE DEF f
  <2>1. QED
    BY <1>1, <1>2, FirstLargest
<1>4. \E b \in Elements(n) :
         /\ \A j \in Elements(n) : Product(n, j) <= Product(n, b)
         /\ \A j \in Elements(n) : j < b => Product(n, j) < Product(n, b)
  <2>1. /\ \A j \in 1..k : Product(n, j) <= Product(n, i)
        /\ \A j \in 1..k : j < i => Product(n, j) < Product(n, i)
    BY <1>3
  <2>2. QED
    BY <1>1, <2>1
<1>5. QED
  BY <1>4 DEF Best

-----------------------------------------------------------------------------
\* The list stays: what of the invariant is about it alone.
LEMMA ListStays ==
  ASSUME QInv, UNCHANGED serializerVars
  PROVE  /\ SInv' /\ result' = result /\ Nodes' = Nodes /\ structure' = structure
         /\ roots' = roots /\ \A i : FromOn(i)' = FromOn(i)
         /\ Serialized' <=> Serialized
         /\ \A n : TypeOf(n)' = TypeOf(n) /\ Elements(n)' = Elements(n)
<1>1. SInv'
  BY IdleKeepsSInv DEF QInv
<1>2. QED
  BY <1>1 DEF serializerVars, Nodes, FromOn, Serialized, RootsTaken, TypeOf, Elements, Primes

\* The place of a loop, in the list.
LEMMA PlaceFacts ==
  ASSUME QInv
  PROVE  /\ Len(result) \in Nat /\ DOMAIN result = 1..Len(result) /\ position \in Nat
         /\ FromOn(1) = Range(result) /\ FromOn(Len(result) + 1) = {}
         /\ position > Len(result) => FromOn(position) = {}
         /\ \A i : FromOn(i) \subseteq Range(result)
         /\ Range(result) \subseteq Nodes
         /\ position >= 1 /\ position <= Len(result) =>
              /\ position \in DOMAIN result /\ At \in Nodes /\ At \in Range(result)
              /\ FromOn(position) = FromOn(position + 1) \cup {At}
              /\ FromOn(position + 1) = FromOn(position) \ {At}
<1>1. SInv /\ position \in Nat /\ Len(result) \in Nat /\ DOMAIN result = 1..Len(result)
  BY ListFacts DEF QInv, Control
<1>2. /\ FromOn(1) = Range(result) /\ FromOn(Len(result) + 1) = {}
      /\ position > Len(result) => FromOn(position) = {}
      /\ \A i : FromOn(i) \subseteq Range(result)
  BY <1>1, FromOnEnds
<1>3. Range(result) \subseteq Nodes
  BY <1>1, ListFacts DEF Range
<1>4. ASSUME position >= 1, position <= Len(result)
      PROVE  /\ position \in DOMAIN result /\ At \in Nodes /\ At \in Range(result)
             /\ FromOn(position) = FromOn(position + 1) \cup {At}
             /\ FromOn(position + 1) = FromOn(position) \ {At}
  <2>1. position \in DOMAIN result
    BY <1>1, <1>4
  <2>2. At \in Range(result)
    BY <2>1 DEF At, Range
  <2>3. QED
    BY <1>1, <1>3, <2>1, <2>2, FromOnStep DEF At
<1>5. QED
  BY <1>1, <1>2, <1>3, <1>4

-----------------------------------------------------------------------------
\* One lemma for each action.
LEMMA BeginKeepsQInv ==
  ASSUME QInv, Begin
  PROVE  QInv'
<1>1. /\ query = "none" /\ pass = "none" /\ roots = <<>> /\ Start /\ structure \in Structures
      /\ activation_flag = {} /\ DOMAIN cache = {} /\ DOMAIN derivatives \subseteq Nat
      /\ node_queue \in Seq(Nodes) /\ DOMAIN user_data = Nodes
      /\ \A n \in Nodes : ~ IsSet(n)
  <2>1. query = "none" /\ pass = "none" /\ roots = <<>> /\ Start
    BY DEF QInv, Begin, Control
  <2>2. SetNodes = {}
    BY <2>1 DEF SetNodes
  <2>3. QED
    BY <2>1, <2>2 DEF QInv, SInv, ListIsTyped, FlagsFollowPass, ScratchFollowsPass, MapFollowsPass,
                      QueueIsListed
<1>2. /\ roots' \in RootLists /\ AreRoots(structure, roots') /\ structure' = structure
      /\ query' \in Queries /\ pass' = "serialize" /\ position' = 0
      /\ UNCHANGED <<next_root, result, node_explored, explore_index, edge>>
      /\ UNCHANGED <<activation_flag, user_data, cache, derivatives, node_queue>>
  BY DEF Begin, Enter, nodeVars, localVars, Queries
<1>3. Start' /\ RootsAreGiven' /\ structure' \in Structures
  BY <1>1, <1>2, PsddGraphAssumption DEF Start, RootsAreGiven
<1>4. SInv'
  BY <1>3, RestartKeepsSInv
<1>5. Control'
  <2>1. Len(result') = 0 /\ roots' # <<>>
    BY <1>2, <1>3 DEF Start, AreRoots
  <2>2. QED
    BY <1>2, <2>1 DEF Control, Queries
<1>6. SetNodes' = {} /\ Nodes' = Nodes
  BY <1>2 DEF SetNodes, Nodes
<1>7. FlagsFollowPass' /\ MapFollowsPass' /\ QueueIsListed'
  BY <1>1, <1>2, <1>6 DEF FlagsFollowPass, MapFollowsPass, QueueIsListed
<1>8. ScratchFollowsPass' /\ ScratchIsTyped'
  BY <1>1, <1>2, <1>6 DEF ScratchFollowsPass, ScratchIsTyped, IsSet
<1>9. QED
  BY <1>4, <1>5, <1>7, <1>8 DEF QInv

LEMMA SerializeKeepsQInv ==
  ASSUME QInv, Serialize
  PROVE  QInv'
<1>1. /\ pass = "serialize" /\ SerializerNext /\ SInv /\ query # "none" /\ roots # <<>>
      /\ position \in Nat /\ position <= Len(result) + 1
      /\ UNCHANGED <<query, pass, position, activation_flag, user_data, cache, derivatives, node_queue>>
  BY DEF QInv, Serialize, Control, nodeVars, localVars
<1>2. /\ SInv' /\ structure' = structure /\ roots' = roots
      /\ Len(result') >= Len(result) /\ Len(result') \in Nat /\ Len(result) \in Nat
  BY <1>1, SerializerKeepsSInv, ListGrows
<1>3. Control'
  BY <1>1, <1>2 DEF QInv, Control
<1>4. SetNodes = {} /\ SetNodes' = {} /\ Nodes' = Nodes
  BY <1>1, <1>2 DEF SetNodes, Nodes
<1>5. FlagsFollowPass' /\ MapFollowsPass' /\ QueueIsListed'
  BY <1>1, <1>4 DEF QInv, FlagsFollowPass, MapFollowsPass, QueueIsListed
<1>6. ScratchFollowsPass' /\ ScratchIsTyped'
  BY <1>1, <1>4 DEF QInv, ScratchFollowsPass, ScratchIsTyped, IsSet
<1>7. QED
  BY <1>2, <1>3, <1>5, <1>6 DEF QInv

\* The scratch words stay, and so does the set of those that are set.
LEMMA ScratchStays ==
  ASSUME QInv, UNCHANGED serializerVars, user_data' = user_data, query' = query,
         SetNodes' = SetNodes
  PROVE  ScratchFollowsPass' /\ ScratchIsTyped'
<1>1. /\ result' = result /\ Nodes' = Nodes
      /\ \A n : TypeOf(n)' = TypeOf(n) /\ Elements(n)' = Elements(n)
      /\ \A n : IsSet(n)' <=> IsSet(n)
  BY ListStays DEF IsSet
<1>2. ScratchFollowsPass'
  BY <1>1 DEF QInv, ScratchFollowsPass
<1>3. ScratchIsTyped'
  BY <1>1 DEF QInv, ScratchIsTyped, KeepsPlaces
<1>4. QED
  BY <1>2, <1>3

LEMMA EndSerializeKeepsQInv ==
  ASSUME QInv, EndSerialize
  PROVE  QInv'
<1>1. /\ UNCHANGED serializerVars /\ pass = "serialize" /\ Serialized
      /\ UNCHANGED <<query, activation_flag, user_data, cache, derivatives, node_queue>>
      /\ IF query = "GetMarginals" THEN pass' = "number" /\ position' = 1
                                   ELSE pass' = "up" /\ position' = Len(result)
  BY DEF EndSerialize, Enter, nodeVars, localVars
<1>2. /\ SInv' /\ result' = result /\ Nodes' = Nodes /\ Serialized' /\ roots' = roots
      /\ \A i : FromOn(i)' = FromOn(i)
  BY <1>1, ListStays
<1>3. Len(result) \in Nat /\ FromOn(Len(result) + 1) = {} /\ FromOn(1) = Range(result)
  BY PlaceFacts
<1>4. Control'
  <2>1. query \in Queries /\ roots # <<>>
    BY <1>1 DEF QInv, Control
  <2>2. /\ query' = query
        /\ \/ query = "GetMarginals" /\ pass' = "number" /\ position' = 1
           \/ query # "GetMarginals" /\ pass' = "up" /\ position' = Len(result)
    BY <1>1
  <2>3. PICK k \in Nat : Len(result') = k /\ Len(result) = k
    BY <1>2, <1>3
  <2>4. query' \in Queries /\ query' # "none"
    BY <2>1, <2>2 DEF Queries
  <2>5. /\ position' \in Nat /\ position' <= Len(result') + 1
        /\ pass' \in {"number", "up"}
        /\ pass' = "up" => position' <= Len(result') /\ query' # "GetMarginals"
        /\ pass' = "number" => position' >= 1 /\ query' = "GetMarginals"
    <3>1. position' \in {1, k}
      BY <2>2, <2>3
    <3>2. QED
      BY <2>2, <2>3, <3>1
  <2>6. roots' # <<>> /\ Serialized'
    BY <1>2, <2>1
  <2>7. QED
    BY <2>4, <2>5, <2>6 DEF Control
<1>5. /\ pass' = "number" => FromOn(position)' = Range(result)
      /\ pass' = "up" => FromOn(position + 1)' = {}
  BY <1>1, <1>2, <1>3 DEF FromOn
<1>6. SetNodes = {} /\ SetNodes' = {}
  BY <1>1, <1>2, <1>5 DEF SetNodes
<1>7. FlagsFollowPass' /\ MapFollowsPass' /\ QueueIsListed'
  BY <1>1, <1>2, <1>5 DEF QInv, FlagsFollowPass, MapFollowsPass, QueueIsListed, UsesMap
<1>8. ScratchFollowsPass' /\ ScratchIsTyped'
  BY <1>1, <1>6, ScratchStays
<1>9. QED
  BY <1>2, <1>4, <1>7, <1>8 DEF QInv

-----------------------------------------------------------------------------
\* What the actions of the loop upwards have in common.
LEMMA UpFacts ==
  ASSUME QInv, UNCHANGED <<serializerVars, query, pass>>,
         pass = "up", position > 0, position' = position - 1
  PROVE  /\ SInv' /\ Control' /\ Nodes' = Nodes /\ result' = result
         /\ position \in 1..Len(result) /\ At \in Nodes
         /\ FromOn(position + 1)' = FromOn(position + 1) \cup {At}
         /\ ChildrenIn(structure, At) \subseteq FromOn(position + 1)
         /\ structure \in Structures
         /\ \A n : TypeOf(n)' = TypeOf(n) /\ Elements(n)' = Elements(n)
<1>1. /\ SInv' /\ result' = result /\ Nodes' = Nodes /\ roots' = roots /\ (Serialized' <=> Serialized)
      /\ \A i : FromOn(i)' = FromOn(i)
      /\ \A n : TypeOf(n)' = TypeOf(n) /\ Elements(n)' = Elements(n)
  BY ListStays
<1>2. /\ position \in Nat /\ position <= Len(result) /\ Len(result) \in Nat /\ Serialized
      /\ SInv /\ structure \in Structures
  BY PlaceFacts DEF QInv, Control, SInv, ListIsTyped
<1>3. position \in 1..Len(result) /\ position \in DOMAIN result
  BY <1>2, PlaceFacts
<1>4. /\ At \in Nodes /\ FromOn(position) = FromOn(position + 1) \cup {At}
  BY <1>2, <1>3, PlaceFacts
<1>5. FromOn(position + 1)' = FromOn(position)
  <2>1. position' + 1 = position
    BY <1>2
  <2>2. QED
    BY <1>1, <2>1 DEF FromOn
<1>6. ChildrenIn(structure, At) \subseteq FromOn(position + 1)
  BY <1>2, <1>3, ChildrenAreLater DEF At
<1>7. Control'
  BY <1>1, <1>2 DEF QInv, Control
<1>8. QED
  BY <1>1, <1>2, <1>3, <1>4, <1>5, <1>6, <1>7

LEMMA ActivateNodeKeepsQInv ==
  ASSUME QInv, ActivateNode
  PROVE  QInv'
<1>1. /\ UNCHANGED <<serializerVars, query, pass>> /\ pass = "up" /\ query = "IsConsistent"
      /\ position > 0 /\ position' = position - 1
      /\ activation_flag' \subseteq activation_flag \cup {At}
      /\ UNCHANGED <<user_data, cache, derivatives, node_queue>>
  BY DEF ActivateNode, Up, localVars
<1>2. /\ SInv' /\ Control' /\ Nodes' = Nodes
      /\ FromOn(position + 1)' = FromOn(position + 1) \cup {At}
  BY <1>1, UpFacts
<1>3. FlagsFollowPass'
  BY <1>1, <1>2 DEF QInv, FlagsFollowPass
<1>4. MapFollowsPass' /\ QueueIsListed'
  BY <1>1, <1>2 DEF QInv, MapFollowsPass, UsesMap, QueueIsListed
<1>5. SetNodes = {} /\ SetNodes' = {}
  BY <1>1 DEF SetNodes
<1>6. ScratchFollowsPass' /\ ScratchIsTyped'
  BY <1>1, <1>5, ScratchStays
<1>7. QED
  BY <1>2, <1>3, <1>4, <1>6 DEF QInv

LEMMA MapNodeKeepsQInv ==
  ASSUME QInv, EvaluateNode \/ CountNode
  PROVE  QInv'
<1>1. /\ UNCHANGED <<serializerVars, query, pass>> /\ pass = "up" /\ UsesMap
      /\ position > 0 /\ position' = position - 1
      /\ DOMAIN cache' = DOMAIN cache \cup {At}
      /\ UNCHANGED <<activation_flag, user_data, derivatives, node_queue>>
  BY DEF EvaluateNode, CountNode, Up, UsesMap, nodeVars
<1>2. /\ SInv' /\ Control' /\ Nodes' = Nodes /\ At \in Nodes
      /\ FromOn(position + 1)' = FromOn(position + 1) \cup {At}
  BY <1>1, UpFacts
<1>3. FlagsFollowPass' /\ MapFollowsPass' /\ QueueIsListed'
  BY <1>1, <1>2 DEF QInv, FlagsFollowPass, MapFollowsPass, UsesMap, QueueIsListed
<1>4. SetNodes = {} /\ SetNodes' = {}
  BY <1>1 DEF SetNodes, UsesMap
<1>5. ScratchFollowsPass' /\ ScratchIsTyped'
  BY <1>1, <1>4, ScratchStays
<1>6. QED
  BY <1>2, <1>3, <1>5 DEF QInv

\* What GetMPESolution leaves with a node.
LEMMA MaximumIsTyped ==
  ASSUME structure \in Structures, NEW n \in Nodes,
         \A c \in ChildrenIn(structure, n) : user_data[c] \in Nat \X Nat
  PROVE  /\ MaximumOf(n) \in Nat \X Nat
         /\ TypeOf(n) = "decision" => MaximumOf(n)[2] \in Elements(n)
<1>1. /\ TypeOf(n) \in {"literal", "top", "decision"}
      /\ \A i \in DOMAIN Parameters(n) : Parameters(n)[i] \in Nat
      /\ TypeOf(n) = "top" => DOMAIN Parameters(n) = 1..2
      /\ TypeOf(n) = "decision" => DOMAIN Parameters(n) = Elements(n)
      /\ \A i \in Elements(n) : {Primes(n)[i], Subs(n)[i]} \subseteq ChildrenIn(structure, n)
  BY NodeFacts
<1>2. CASE TypeOf(n) = "literal"
  BY <1>2, NodeQueriesAssumption DEF MaximumOf
<1>3. CASE TypeOf(n) = "top"
  <2>1. TrueParameter(n) \in Nat /\ FalseParameter(n) \in Nat
    BY <1>1, <1>3 DEF TrueParameter, FalseParameter
  <2>2. QED
    BY <1>3, <2>1 DEF MaximumOf
<1>4. CASE TypeOf(n) = "decision"
  <2>1. ASSUME NEW i \in Elements(n)
        PROVE  Product(n, i) \in Nat
    <3>1. /\ user_data[Primes(n)[i]] \in Nat \X Nat /\ user_data[Subs(n)[i]] \in Nat \X Nat
          /\ Parameters(n)[i] \in Nat
      BY <1>1, <1>4, <2>1
    <3>2. PICK a, b, c \in Nat : /\ user_data[Primes(n)[i]][1] = a /\ user_data[Subs(n)[i]][1] = b
                                 /\ Parameters(n)[i] = c
      BY <3>1
    <3>3. a * b \in Nat
      OBVIOUS
    <3>4. (a * b) * c \in Nat
      BY <3>3
    <3>5. QED
      BY <3>2, <3>4 DEF Product
  <2>2. Best(n) \in Elements(n)
    BY <1>4, <2>1, BestIsElement
  <2>3. Best(n) \in Nat
    BY <2>2, NodeFacts
  <2>4. MaximumOf(n) = <<Product(n, Best(n)), Best(n)>>
    BY <1>4 DEF MaximumOf
  <2>5. QED
    BY <2>1, <2>2, <2>3, <2>4
<1>5. QED
  BY <1>1, <1>2, <1>3, <1>4

LEMMA MaximizeNodeKeepsQInv ==
  ASSUME QInv, MaximizeNode
  PROVE  QInv'
<1>1. /\ UNCHANGED <<serializerVars, query, pass>> /\ pass = "up" /\ query = "GetMPESolution"
      /\ position > 0 /\ position' = position - 1
      /\ user_data' = [user_data EXCEPT ![At] = MaximumOf(At)]
      /\ UNCHANGED <<activation_flag, cache, derivatives, node_queue>>
  BY DEF MaximizeNode, Up, localVars
<1>2. /\ SInv' /\ Control' /\ Nodes' = Nodes /\ At \in Nodes
      /\ FromOn(position + 1)' = FromOn(position + 1) \cup {At}
      /\ ChildrenIn(structure, At) \subseteq FromOn(position + 1)
      /\ structure \in Structures
      /\ \A n : TypeOf(n)' = TypeOf(n) /\ Elements(n)' = Elements(n)
  BY <1>1, UpFacts
<1>3. SetNodes = FromOn(position + 1) /\ SetNodes' = SetNodes \cup {At}
  BY <1>1, <1>2 DEF SetNodes
<1>4. /\ DOMAIN user_data = Nodes /\ \A n \in Nodes : IsSet(n) <=> n \in SetNodes
      /\ \A n \in Nodes : IsSet(n) => /\ user_data[n] \in Nat \X Nat
                                      /\ TypeOf(n) = "decision" => user_data[n][2] \in Elements(n)
  BY <1>1 DEF QInv, ScratchFollowsPass, ScratchIsTyped
<1>5. ChildrenIn(structure, At) \subseteq Nodes
  BY <1>2, Conformed DEF Nodes
<1>6. /\ MaximumOf(At) \in Nat \X Nat
      /\ TypeOf(At) = "decision" => MaximumOf(At)[2] \in Elements(At)
  <2>1. \A c \in ChildrenIn(structure, At) : user_data[c] \in Nat \X Nat
    BY <1>2, <1>3, <1>4, <1>5
  <2>2. QED
    BY <1>2, <2>1, MaximumIsTyped
<1>7. /\ DOMAIN user_data' = Nodes
      /\ \A n \in Nodes : user_data'[n] = IF n = At THEN MaximumOf(At) ELSE user_data[n]
  BY <1>1, <1>4
<1>8. MaximumOf(At) # <<>>
  BY <1>6
<1>9. ScratchFollowsPass'
  <2>1. \A n \in Nodes : IsSet(n)' <=> n \in SetNodes'
    BY <1>3, <1>4, <1>7, <1>8 DEF IsSet
  <2>2. QED
    BY <1>2, <1>7, <2>1 DEF ScratchFollowsPass
<1>10. ScratchIsTyped'
  <2>1. \A n \in Nodes : IsSet(n)' => /\ user_data'[n] \in Nat \X Nat
                                      /\ TypeOf(n) = "decision" => user_data'[n][2] \in Elements(n)
    BY <1>4, <1>6, <1>7 DEF IsSet
  <2>2. QED
    BY <1>1, <1>2, <2>1 DEF ScratchIsTyped, KeepsPlaces
<1>11. FlagsFollowPass' /\ MapFollowsPass' /\ QueueIsListed'
  BY <1>1, <1>2 DEF QInv, FlagsFollowPass, MapFollowsPass, UsesMap, QueueIsListed
<1>12. QED
  BY <1>2, <1>9, <1>10, <1>11 DEF QInv

\* A place put into a scratch word, by either loop that does.
LEMMA PlaceIsPut ==
  ASSUME QInv, KeepsPlaces, UNCHANGED <<serializerVars, query>>, At \in Nodes,
         NEW k \in 0..Len(result) - 1, user_data' = [user_data EXCEPT ![At] = <<k>>],
         SetNodes' = SetNodes \cup {At}
  PROVE  ScratchFollowsPass' /\ ScratchIsTyped'
<1>1. /\ result' = result /\ Nodes' = Nodes
  BY ListStays
<1>2. /\ DOMAIN user_data = Nodes /\ \A n \in Nodes : IsSet(n) <=> n \in SetNodes
      /\ \A n \in Nodes : IsSet(n) => \E j \in 0..Len(result) - 1 : user_data[n] = <<j>>
  BY DEF QInv, ScratchFollowsPass, ScratchIsTyped
<1>3. /\ DOMAIN user_data' = Nodes
      /\ \A n \in Nodes : user_data'[n] = IF n = At THEN <<k>> ELSE user_data[n]
  BY <1>2
<1>4. <<k>> # <<>>
  OBVIOUS
<1>5. \A n \in Nodes : IsSet(n)' <=> n \in SetNodes'
  BY <1>2, <1>3, <1>4 DEF IsSet
<1>6. \A n \in Nodes : IsSet(n)' => \E j \in 0..Len(result) - 1 : user_data'[n] = <<j>>
  BY <1>2, <1>3 DEF IsSet
<1>7. query' # "GetMPESolution"
  BY DEF KeepsPlaces
<1>8. QED
  BY <1>1, <1>3, <1>5, <1>6, <1>7 DEF ScratchFollowsPass, ScratchIsTyped

LEMMA WriteLineKeepsQInv ==
  ASSUME QInv, WriteLine
  PROVE  QInv'
<1>1. /\ UNCHANGED <<serializerVars, query, pass>> /\ pass = "up" /\ query = "WritePsddToFile"
      /\ position > 0 /\ position' = position - 1
      /\ user_data' = [user_data EXCEPT ![At] = <<LineNumber>>]
      /\ UNCHANGED <<activation_flag, cache, derivatives, node_queue>>
  BY DEF WriteLine, Up
<1>2. /\ SInv' /\ Control' /\ Nodes' = Nodes /\ At \in Nodes /\ position \in 1..Len(result)
      /\ FromOn(position + 1)' = FromOn(position + 1) \cup {At}
  BY <1>1, UpFacts
<1>3. SetNodes' = SetNodes \cup {At}
  BY <1>1, <1>2 DEF SetNodes
<1>4. LineNumber \in 0..Len(result) - 1
  <2>1. Len(result) \in Nat
    BY PlaceFacts
  <2>2. QED
    BY <1>2, <2>1 DEF LineNumber
<1>5. ScratchFollowsPass' /\ ScratchIsTyped'
  BY <1>1, <1>2, <1>3, <1>4, PlaceIsPut DEF KeepsPlaces
<1>6. FlagsFollowPass' /\ MapFollowsPass' /\ QueueIsListed'
  BY <1>1, <1>2 DEF QInv, FlagsFollowPass, MapFollowsPass, UsesMap, QueueIsListed
<1>7. QED
  BY <1>2, <1>5, <1>6 DEF QInv

LEMMA EndUpKeepsQInv ==
  ASSUME QInv, EndUp
  PROVE  QInv'
<1>1. /\ UNCHANGED serializerVars /\ pass = "up" /\ position = 0
      /\ UNCHANGED <<query, activation_flag, user_data, cache, derivatives>>
      /\ \/ query \in {"IsConsistent", "WritePsddToFile"} /\ pass' = "reset" /\ position' = 1
            /\ node_queue' = node_queue
         \/ UsesMap /\ pass' = "return" /\ position' = 0 /\ node_queue' = node_queue
         \/ query = "GetMPESolution" /\ pass' = "extract" /\ position' = 0
            /\ node_queue' = <<roots[1]>>
  <2>1. query \in Queries /\ query # "GetMarginals" /\ pass = "up"
    BY DEF QInv, Control, EndUp
  <2>2. QED
    BY <2>1 DEF EndUp, Enter, nodeVars, UsesMap, Queries
<1>2. /\ SInv' /\ result' = result /\ Nodes' = Nodes /\ (Serialized' <=> Serialized) /\ roots' = roots
      /\ \A i : FromOn(i)' = FromOn(i)
  BY <1>1, ListStays
<1>3. Len(result) \in Nat /\ FromOn(1) = Range(result) /\ Range(result) \subseteq Nodes
  BY PlaceFacts
<1>4. Control'
  BY <1>1, <1>2, <1>3 DEF QInv, Control, UsesMap
<1>5. FromOn(position + 1) = FromOn(1) /\ (pass' = "reset" => FromOn(position)' = FromOn(1))
  BY <1>1, <1>2 DEF FromOn
<1>6. FlagsFollowPass'
  BY <1>1, <1>2, <1>5 DEF QInv, FlagsFollowPass, UsesMap
<1>7. SetNodes' = SetNodes
  BY <1>1, <1>2, <1>3, <1>5 DEF SetNodes, UsesMap
<1>8. ScratchFollowsPass' /\ ScratchIsTyped'
  BY <1>1, <1>7, ScratchStays
<1>9. MapFollowsPass'
  BY <1>1, <1>2 DEF QInv, MapFollowsPass
<1>10. QueueIsListed'
  <2>1. roots[1] \in Range(result)
    <3>1. /\ roots \in Seq(Nat) /\ roots # <<>> /\ RootsTaken /\ next_root \in 1..Len(roots) + 1
          /\ \A k \in DOMAIN roots : k < next_root => roots[k] \in Range(result)
      BY <1>1 DEF QInv, SInv, Control, RootsAreGiven, ListIsTyped, SeenIsListed, Serialized
    <3>2. 1 \in DOMAIN roots /\ 1 < next_root
      BY <3>1 DEF RootsTaken
    <3>3. QED
      BY <3>1, <3>2
  <2>2. <<roots[1]>> \in Seq(Nodes) /\ Range(<<roots[1]>>) \subseteq Range(result)
    BY <1>3, <2>1 DEF Range
  <2>3. QED
    BY <1>1, <1>2, <2>2 DEF QInv, QueueIsListed, UsesMap
<1>11. QED
  BY <1>2, <1>4, <1>6, <1>8, <1>9, <1>10 DEF QInv

-----------------------------------------------------------------------------
LEMMA ExtractKeepsQInv ==
  ASSUME QInv, Extract
  PROVE  QInv'
<1> DEFINE n == Head(node_queue)
           a == Primes(n)[user_data[n][2]]
           b == Subs(n)[user_data[n][2]]
<1>1. /\ UNCHANGED serializerVars /\ pass = "extract" /\ node_queue # <<>>
      /\ UNCHANGED <<query, pass, position, activation_flag, user_data, cache, derivatives>>
      /\ node_queue' = IF TypeOf(n) = "decision" THEN Tail(node_queue) \o <<a, b>>
                                                 ELSE Tail(node_queue)
  BY DEF Extract, nodeVars
<1>2. /\ SInv' /\ result' = result /\ Nodes' = Nodes /\ (Serialized' <=> Serialized) /\ roots' = roots
      /\ \A i : FromOn(i)' = FromOn(i)
  BY <1>1, ListStays
<1>3. /\ query = "GetMPESolution" /\ Serialized /\ SInv /\ structure \in Structures
      /\ node_queue \in Seq(Nodes) /\ Range(node_queue) \subseteq Range(result)
      /\ Range(result) \subseteq Nodes
  BY <1>1, PlaceFacts DEF QInv, Control, QueueIsListed, SInv, ListIsTyped
<1>4. Control'
  BY <1>1, <1>2 DEF QInv, Control, Start, serializerVars
<1>5. n \in Range(result) /\ n \in Nodes
  <2>1. 1 \in DOMAIN node_queue /\ n = node_queue[1]
    BY <1>1, <1>3
  <2>2. QED
    BY <1>3, <2>1 DEF Range
<1>6. TypeOf(n) = "decision" => a \in Range(result) /\ b \in Range(result)
  <2>1. SUFFICES ASSUME TypeOf(n) = "decision" PROVE a \in Range(result) /\ b \in Range(result)
    OBVIOUS
  <2>2. n \in SetNodes
    BY <1>1, <1>5 DEF SetNodes
  <2>3. user_data[n][2] \in Elements(n)
    BY <1>3, <1>5, <2>1, <2>2 DEF QInv, ScratchFollowsPass, ScratchIsTyped
  <2>4. {a, b} \subseteq ChildrenIn(structure, n)
    BY <1>3, <1>5, <2>3, NodeFacts
  <2>5. PICK i \in DOMAIN result : result[i] = n
    BY <1>5 DEF Range
  <2>6. ChildrenIn(structure, n) \subseteq FromOn(i + 1)
    BY <1>3, <2>5, ChildrenAreLater
  <2>7. FromOn(i + 1) \subseteq Range(result)
    BY PlaceFacts
  <2>8. QED
    BY <2>4, <2>6, <2>7
<1>7. QueueIsListed'
  <2>1. /\ Tail(node_queue) \in Seq(Nodes) /\ Range(Tail(node_queue)) \subseteq Range(result)
    <3>1. \A i \in DOMAIN Tail(node_queue) : i + 1 \in DOMAIN node_queue /\ Tail(node_queue)[i] = node_queue[i + 1]
      BY <1>1, <1>3
    <3>2. Tail(node_queue) \in Seq(Nodes)
      BY <1>1, <1>3
    <3>3. QED
      BY <1>3, <3>1, <3>2 DEF Range
  <2>2. CASE TypeOf(n) # "decision"
    BY <1>1, <1>2, <2>1, <2>2 DEF QueueIsListed
  <2>3. CASE TypeOf(n) = "decision"
    <3> DEFINE t == Tail(node_queue)
               q == t \o <<a, b>>
    <3>1. a \in Nodes /\ b \in Nodes /\ <<a, b>> \in Seq(Nodes) /\ Len(<<a, b>>) = 2
      BY <1>3, <1>6, <2>3
    <3>2. /\ q \in Seq(Nodes) /\ Len(q) = Len(t) + 2 /\ Len(t) \in Nat
          /\ \A i \in 1..Len(t) + 2 : q[i] = IF i <= Len(t) THEN t[i] ELSE <<a, b>>[i - Len(t)]
      <4> HIDE DEF t, a, b
      <4>1. t \in Seq(Nodes)
        BY <2>1 DEF t
      <4>2. QED
        BY <3>1, <4>1, ConcatProperties
    <3>3. \A i \in DOMAIN q : q[i] \in Range(result)
      <4>1. SUFFICES ASSUME NEW i \in 1..Len(t) + 2 PROVE q[i] \in Range(result)
        BY <3>2
      <4>2. CASE i <= Len(t)
        <5>1. i \in DOMAIN t /\ q[i] = t[i]
          BY <2>1, <3>2, <4>1, <4>2
        <5>2. QED
          BY <2>1, <5>1 DEF Range
      <4>3. CASE ~ i <= Len(t)
        <5>1. i - Len(t) \in {1, 2} /\ q[i] = <<a, b>>[i - Len(t)]
          BY <3>2, <4>1, <4>3
        <5>2. q[i] \in {a, b}
          BY <5>1
        <5>3. QED
          BY <1>6, <2>3, <5>2
      <4>4. QED
        BY <4>2, <4>3
    <3>4. Range(q) \subseteq Range(result)
      BY <3>3 DEF Range
    <3>5. node_queue' = q
      BY <1>1, <2>3
    <3>6. QED
      BY <1>2, <3>2, <3>4, <3>5 DEF QueueIsListed
  <2>4. QED
    BY <2>2, <2>3
<1>8. SetNodes' = SetNodes
  BY <1>1, <1>2 DEF SetNodes
<1>9. ScratchFollowsPass' /\ ScratchIsTyped'
  BY <1>1, <1>8, ScratchStays
<1>10. FlagsFollowPass' /\ MapFollowsPass'
  BY <1>1, <1>2, <1>3 DEF QInv, FlagsFollowPass, MapFollowsPass
<1>11. QED
  BY <1>2, <1>4, <1>7, <1>9, <1>10 DEF QInv

\* The ends of the other loops.
LEMMA EndLoopKeepsQInv ==
  ASSUME QInv, EndExtract \/ EndDown \/ EndReset
  PROVE  QInv'
<1>1. /\ UNCHANGED <<serializerVars, query, activation_flag, user_data, cache, derivatives, node_queue>>
      /\ \/ pass \in {"extract", "down"} /\ pass' = "reset" /\ position' = 1
         \/ pass = "reset" /\ position > Len(result) /\ pass' = "return" /\ position' = 0
  BY DEF EndExtract, EndDown, EndReset, Enter, nodeVars, localVars
<1>2. /\ SInv' /\ result' = result /\ Nodes' = Nodes /\ (Serialized' <=> Serialized) /\ roots' = roots
      /\ \A i : FromOn(i)' = FromOn(i)
  BY <1>1, ListStays
<1>3. /\ Len(result) \in Nat /\ FromOn(1) = Range(result)
      /\ position > Len(result) => FromOn(position) = {}
  BY PlaceFacts
<1>4. Control'
  BY <1>1, <1>2, <1>3 DEF QInv, Control, UsesMap
<1>5. pass' = "reset" => FromOn(position)' = FromOn(1)
  BY <1>1, <1>2 DEF FromOn
<1>6. pass \in {"extract", "down"} => query \in {"GetMPESolution", "GetMarginals"}
  BY DEF QInv, Control
<1>7. SetNodes' = SetNodes
  BY <1>1, <1>2, <1>3, <1>5, <1>6 DEF SetNodes
<1>8. ScratchFollowsPass' /\ ScratchIsTyped'
  BY <1>1, <1>7, ScratchStays
<1>9. FlagsFollowPass'
  BY <1>1, <1>3, <1>6 DEF QInv, FlagsFollowPass
<1>10. MapFollowsPass' /\ QueueIsListed'
  BY <1>1, <1>2 DEF QInv, MapFollowsPass, QueueIsListed
<1>11. QED
  BY <1>2, <1>4, <1>8, <1>9, <1>10 DEF QInv

LEMMA NumberNodeKeepsQInv ==
  ASSUME QInv, NumberNode
  PROVE  QInv'
<1>1. /\ UNCHANGED serializerVars /\ pass = "number" /\ position <= Len(result)
      /\ position' = position + 1 /\ user_data' = [user_data EXCEPT ![At] = <<Place>>]
      /\ UNCHANGED <<query, pass, activation_flag, cache, derivatives, node_queue>>
  BY DEF NumberNode, localVars
<1>2. /\ SInv' /\ result' = result /\ Nodes' = Nodes /\ (Serialized' <=> Serialized) /\ roots' = roots
      /\ \A i : FromOn(i)' = FromOn(i)
  BY <1>1, ListStays
<1>3. /\ query = "GetMarginals" /\ position >= 1 /\ position \in Nat /\ Len(result) \in Nat
      /\ At \in Nodes /\ At \in Range(result)
      /\ FromOn(position + 1) = FromOn(position) \ {At}
  BY <1>1, PlaceFacts DEF QInv, Control
<1>4. Control'
  BY <1>1, <1>2, <1>3 DEF QInv, Control
<1>5. FromOn(position)' = FromOn(position + 1)
  BY <1>1, <1>2 DEF FromOn
<1>6. SetNodes' = SetNodes \cup {At}
  BY <1>1, <1>2, <1>3, <1>5 DEF SetNodes
<1>7. Place \in 0..Len(result) - 1
  BY <1>1, <1>3 DEF Place
<1>8. ScratchFollowsPass' /\ ScratchIsTyped'
  BY <1>1, <1>3, <1>6, <1>7, PlaceIsPut DEF KeepsPlaces
<1>9. FlagsFollowPass' /\ MapFollowsPass' /\ QueueIsListed'
  BY <1>1, <1>2, <1>3 DEF QInv, FlagsFollowPass, MapFollowsPass, QueueIsListed
<1>10. QED
  BY <1>2, <1>4, <1>8, <1>9 DEF QInv

LEMMA EndNumberKeepsQInv ==
  ASSUME QInv, EndNumber
  PROVE  QInv'
<1>1. /\ UNCHANGED serializerVars /\ pass = "number" /\ position > Len(result)
      /\ pass' = "down" /\ position' = 1 /\ DOMAIN derivatives' = 0..Len(result) - 1
      /\ UNCHANGED <<query, activation_flag, user_data, cache, node_queue>>
  BY DEF EndNumber, Enter, nodeVars
<1>2. /\ SInv' /\ result' = result /\ Nodes' = Nodes /\ (Serialized' <=> Serialized) /\ roots' = roots
  BY <1>1, ListStays
<1>3. Len(result) \in Nat /\ FromOn(position) = {} /\ query = "GetMarginals"
  BY <1>1, PlaceFacts DEF QInv, Control
<1>4. Control'
  BY <1>1, <1>2, <1>3 DEF QInv, Control
<1>5. SetNodes' = SetNodes
  BY <1>1, <1>2, <1>3 DEF SetNodes
<1>6. ScratchFollowsPass' /\ ScratchIsTyped'
  BY <1>1, <1>5, ScratchStays
<1>7. MapFollowsPass'
  <2>1. DOMAIN derivatives' \subseteq Nat
    BY <1>1, <1>3
  <2>2. QED
    BY <1>1, <1>2, <2>1 DEF QInv, MapFollowsPass
<1>8. FlagsFollowPass' /\ QueueIsListed'
  BY <1>1, <1>2, <1>3 DEF QInv, FlagsFollowPass, QueueIsListed
<1>9. QED
  BY <1>2, <1>4, <1>6, <1>7, <1>8 DEF QInv

LEMMA DeriveNodeKeepsQInv ==
  ASSUME QInv, DeriveNode
  PROVE  QInv'
<1>1. /\ UNCHANGED serializerVars /\ pass = "down" /\ position <= Len(result)
      /\ position' = position + 1 /\ DOMAIN derivatives' = DOMAIN derivatives
      /\ UNCHANGED <<query, pass, activation_flag, user_data, cache, node_queue>>
  BY DEF DeriveNode, nodeVars
<1>2. /\ SInv' /\ result' = result /\ Nodes' = Nodes /\ (Serialized' <=> Serialized) /\ roots' = roots
  BY <1>1, ListStays
<1>3. Len(result) \in Nat /\ position \in Nat /\ position >= 1 /\ query = "GetMarginals"
  BY <1>1, PlaceFacts DEF QInv, Control
<1>4. Control'
  BY <1>1, <1>2, <1>3 DEF QInv, Control
<1>5. SetNodes' = SetNodes
  BY <1>1, <1>2 DEF SetNodes
<1>6. ScratchFollowsPass' /\ ScratchIsTyped'
  BY <1>1, <1>5, ScratchStays
<1>7. FlagsFollowPass' /\ MapFollowsPass' /\ QueueIsListed'
  BY <1>1, <1>2, <1>3 DEF QInv, FlagsFollowPass, MapFollowsPass, QueueIsListed
<1>8. QED
  BY <1>2, <1>4, <1>6, <1>7 DEF QInv

-----------------------------------------------------------------------------
LEMMA ResetNodeKeepsQInv ==
  ASSUME QInv, ResetNode
  PROVE  QInv'
<1>1. /\ UNCHANGED serializerVars /\ pass = "reset" /\ position <= Len(result)
      /\ position' = position + 1
      /\ UNCHANGED <<query, pass, cache, derivatives, node_queue>>
      /\ IF query = "IsConsistent"
           THEN activation_flag' = activation_flag \ {At} /\ user_data' = user_data
           ELSE /\ user_data' = [user_data EXCEPT ![At] = <<>>]
                /\ activation_flag' = activation_flag
  BY DEF ResetNode, FlagReset, ScratchReset, localVars
<1>2. /\ SInv' /\ result' = result /\ Nodes' = Nodes /\ (Serialized' <=> Serialized) /\ roots' = roots
      /\ \A i : FromOn(i)' = FromOn(i)
      /\ \A n : TypeOf(n)' = TypeOf(n) /\ Elements(n)' = Elements(n)
  BY <1>1, ListStays
<1>3. /\ Len(result) \in Nat /\ position \in Nat /\ position >= 1 /\ At \in Nodes
      /\ FromOn(position + 1) = FromOn(position) \ {At}
  BY <1>1, PlaceFacts DEF QInv, Control
<1>4. Control'
  BY <1>1, <1>2, <1>3 DEF QInv, Control, UsesMap
<1>5. FromOn(position)' = FromOn(position) \ {At}
  <2>1. FromOn(position)' = FromOn(position + 1)
    BY <1>1, <1>2 DEF FromOn
  <2>2. QED
    BY <1>3, <2>1
<1>6. FlagsFollowPass'
  BY <1>1, <1>5 DEF QInv, FlagsFollowPass
<1>7. ScratchFollowsPass' /\ ScratchIsTyped'
  <2>1. CASE query = "IsConsistent"
    <3>1. SetNodes' = SetNodes
      BY <1>1, <2>1 DEF SetNodes
    <3>2. QED
      BY <1>1, <2>1, <3>1, ScratchStays
  <2>2. CASE query # "IsConsistent"
    <3>1. SetNodes = FromOn(position) /\ SetNodes' = SetNodes \ {At}
      BY <1>1, <1>5, <2>2 DEF SetNodes
    <3>2. DOMAIN user_data = Nodes /\ \A n \in Nodes : IsSet(n) <=> n \in SetNodes
      BY DEF QInv, ScratchFollowsPass
    <3>3. /\ DOMAIN user_data' = Nodes
          /\ \A n \in Nodes : user_data'[n] = IF n = At THEN <<>> ELSE user_data[n]
      BY <1>1, <2>2, <3>2
    <3>4. \A n \in Nodes : IsSet(n)' => IsSet(n) /\ user_data'[n] = user_data[n]
      BY <3>3 DEF IsSet
    <3>5. ScratchFollowsPass'
      <4>1. \A n \in Nodes : IsSet(n)' <=> n \in SetNodes'
        BY <3>1, <3>2, <3>3 DEF IsSet
      <4>2. QED
        BY <1>2, <3>3, <4>1 DEF ScratchFollowsPass
    <3>6. ScratchIsTyped'
      BY <1>1, <1>2, <3>4 DEF QInv, ScratchIsTyped, KeepsPlaces
    <3>7. QED
      BY <3>5, <3>6
  <2>3. QED
    BY <2>1, <2>2
<1>8. MapFollowsPass' /\ QueueIsListed'
  BY <1>1, <1>2 DEF QInv, MapFollowsPass, QueueIsListed
<1>9. QED
  BY <1>2, <1>4, <1>6, <1>7, <1>8 DEF QInv

LEMMA ReturnKeepsQInv ==
  ASSUME QInv, Return
  PROVE  QInv'
<1>1. /\ pass = "return" /\ query' = "none" /\ pass' = "none" /\ position' = 0
      /\ roots' = <<>> /\ next_root' = 1 /\ result' = <<>> /\ node_explored' = {}
      /\ explore_index' = 1 /\ edge' = 1
      /\ cache' = <<>> /\ derivatives' = <<>> /\ node_queue' = <<>>
      /\ UNCHANGED <<structure, activation_flag, user_data>>
  BY DEF Return, Enter, nodeVars
<1>2. SetNodes = {} /\ SetNodes' = {} /\ Nodes' = Nodes
  BY <1>1 DEF SetNodes, Nodes
<1>3. structure \in Structures /\ activation_flag = {}
  BY <1>1 DEF QInv, SInv, ListIsTyped, FlagsFollowPass
<1>4. SInv' /\ Start'
  <2>1. RootsAreGiven' /\ Start' /\ structure' \in Structures
    BY <1>1, <1>3 DEF RootsAreGiven, Start
  <2>2. QED
    BY <2>1, RestartKeepsSInv
<1>5. Control'
  <2>1. Len(result') = 0 /\ Len(roots') = 0
    BY <1>1
  <2>2. QED
    BY <1>1, <1>4, <2>1 DEF Control, Serialized, RootsTaken, UsesMap
<1>6. FlagsFollowPass' /\ QueueIsListed'
  BY <1>1, <1>3 DEF FlagsFollowPass, QueueIsListed
<1>7. MapFollowsPass'
  <2>1. DOMAIN cache' = {} /\ DOMAIN derivatives' = {}
    BY <1>1
  <2>2. QED
    BY <1>1, <2>1 DEF MapFollowsPass
<1>8. ScratchFollowsPass' /\ ScratchIsTyped'
  BY <1>1, <1>2 DEF QInv, ScratchFollowsPass, ScratchIsTyped, IsSet
<1>9. QED
  BY <1>4, <1>5, <1>6, <1>7, <1>8 DEF QInv

-----------------------------------------------------------------------------
(***************************************************************************)
(* The invariant of any sequence of questions.                             *)
(***************************************************************************)
THEOREM QueriesInvariant == Spec => []QInv
<1>1. QueriesInit => QInv
  <2>1. SUFFICES ASSUME QueriesInit PROVE QInv
    OBVIOUS
  <2>2. /\ structure \in Structures /\ roots = <<>> /\ Start
        /\ query = "none" /\ pass = "none" /\ position = 0 /\ activation_flag = {}
        /\ user_data = [n \in DOMAIN structure |-> <<>>]
        /\ cache = <<>> /\ derivatives = <<>> /\ node_queue = <<>>
    BY <2>1 DEF QueriesInit
  <2>3. SInv
    BY <2>2, StartKeepsSInv DEF RootsAreGiven
  <2>4. Control
    <3>1. Len(result) = 0 /\ Len(roots) = 0 /\ next_root = 1 /\ explore_index = 1
      BY <2>2 DEF Start
    <3>2. QED
      BY <2>2, <3>1 DEF Control, Serialized, RootsTaken, UsesMap
  <2>5. SetNodes = {}
    BY <2>2 DEF SetNodes
  <2>6. DOMAIN cache = {} /\ DOMAIN derivatives = {} /\ node_queue \in Seq(Nodes)
    BY <2>2
  <2>7. FlagsFollowPass /\ MapFollowsPass /\ QueueIsListed
    BY <2>2, <2>6 DEF FlagsFollowPass, MapFollowsPass, QueueIsListed
  <2>8. ScratchFollowsPass /\ ScratchIsTyped
    BY <2>2, <2>5 DEF ScratchFollowsPass, ScratchIsTyped, IsSet, Nodes
  <2>9. QED
    BY <2>3, <2>4, <2>7, <2>8 DEF QInv
<1>2. QInv /\ [Next]_vars => QInv'
  <2>1. SUFFICES ASSUME QInv, [Next]_vars PROVE QInv'
    OBVIOUS
  <2>2. CASE Begin \/ Serialize \/ EndSerialize
    BY <2>1, <2>2, BeginKeepsQInv, SerializeKeepsQInv, EndSerializeKeepsQInv
  <2>3. CASE ActivateNode \/ EvaluateNode \/ CountNode
    BY <2>1, <2>3, ActivateNodeKeepsQInv, MapNodeKeepsQInv
  <2>4. CASE MaximizeNode \/ WriteLine \/ EndUp
    BY <2>1, <2>4, MaximizeNodeKeepsQInv, WriteLineKeepsQInv, EndUpKeepsQInv
  <2>5. CASE Extract \/ EndExtract \/ EndDown \/ EndReset
    BY <2>1, <2>5, ExtractKeepsQInv, EndLoopKeepsQInv
  <2>6. CASE NumberNode \/ EndNumber \/ DeriveNode
    BY <2>1, <2>6, NumberNodeKeepsQInv, EndNumberKeepsQInv, DeriveNodeKeepsQInv
  <2>7. CASE ResetNode \/ Return
    BY <2>1, <2>7, ResetNodeKeepsQInv, ReturnKeepsQInv
  <2>8. CASE UNCHANGED vars
    <3>1. UNCHANGED <<serializerVars, query, pass, position, activation_flag, user_data, cache,
                      derivatives, node_queue>>
      BY <2>8 DEF vars, nodeVars, localVars
    <3>2. /\ SInv' /\ result' = result /\ Nodes' = Nodes /\ (Serialized' <=> Serialized)
          /\ roots' = roots /\ \A i : FromOn(i)' = FromOn(i)
      BY <2>1, <3>1, ListStays
    <3>3. Control'
      BY <2>1, <3>1, <3>2 DEF QInv, Control, Start, serializerVars, UsesMap
    <3>4. FromOn(position + 1)' = FromOn(position + 1) /\ FromOn(position)' = FromOn(position)
      BY <3>1, <3>2 DEF FromOn
    <3>5. SetNodes' = SetNodes
      BY <3>1, <3>2, <3>4 DEF SetNodes
    <3>6. ScratchFollowsPass' /\ ScratchIsTyped'
      BY <2>1, <3>1, <3>5, ScratchStays
    <3>7. FlagsFollowPass' /\ MapFollowsPass' /\ QueueIsListed'
      BY <2>1, <3>1, <3>2, <3>4 DEF QInv, FlagsFollowPass, MapFollowsPass, UsesMap, QueueIsListed
    <3>8. QED
      BY <3>2, <3>3, <3>6, <3>7 DEF QInv
  <2>9. QED
    BY <2>1, <2>2, <2>3, <2>4, <2>5, <2>6, <2>7, <2>8 DEF Next, Work
<1>3. QED
  BY <1>1, <1>2, PTL DEF Spec

-----------------------------------------------------------------------------
LEMMA QInvImpliesTyped ==
  ASSUME QInv
  PROVE  QueriesTypeOK
<1>1. /\ structure \in Structures /\ result \in Seq(Nodes) /\ node_explored = Range(result)
      /\ Range(result) \subseteq Nodes /\ Len(result) \in Nat
      /\ \A i : FromOn(i) \subseteq Range(result)
  BY PlaceFacts DEF QInv, SInv, ListIsTyped, ExploredIsListed
<1>2. activation_flag \subseteq Nodes
  BY <1>1 DEF QInv, FlagsFollowPass
<1>3. ASSUME NEW n \in Nodes
      PROVE  \/ user_data[n] = <<>>
             \/ query = "GetMPESolution" /\ user_data[n] \in Nat \X Nat
             \/ KeepsPlaces /\ user_data[n] \in Seq(0..Len(result) - 1)
  <2>1. SUFFICES ASSUME IsSet(n)
                 PROVE  \/ query = "GetMPESolution" /\ user_data[n] \in Nat \X Nat
                        \/ KeepsPlaces /\ user_data[n] \in Seq(0..Len(result) - 1)
    BY DEF IsSet
  <2>2. n \in SetNodes
    BY <2>1 DEF QInv, ScratchFollowsPass
  <2>3. query = "GetMPESolution" \/ KeepsPlaces
    BY <2>2 DEF QInv, Control, SetNodes, KeepsPlaces, UsesMap, Queries
  <2>4. query = "GetMPESolution" => user_data[n] \in Nat \X Nat
    BY <2>1 DEF QInv, ScratchIsTyped
  <2>5. KeepsPlaces => user_data[n] \in Seq(0..Len(result) - 1)
    <3>1. SUFFICES ASSUME KeepsPlaces PROVE user_data[n] \in Seq(0..Len(result) - 1)
      OBVIOUS
    <3>2. PICK k \in 0..Len(result) - 1 : user_data[n] = <<k>>
      BY <2>1, <3>1 DEF QInv, ScratchIsTyped
    <3>3. <<k>> \in Seq(0..Len(result) - 1)
      OBVIOUS
    <3>4. QED
      BY <3>2, <3>3
  <2>6. QED
    BY <2>3, <2>4, <2>5
<1>4. position \in 0..Len(result) + 1
  BY <1>1 DEF QInv, Control
<1>5. /\ query \in Queries \cup {"none"} /\ DOMAIN user_data = Nodes
      /\ DOMAIN cache \subseteq Nodes /\ DOMAIN derivatives \subseteq Nat
  BY DEF QInv, Control, ScratchFollowsPass, MapFollowsPass
<1>6. QED
  BY <1>1, <1>2, <1>3, <1>4, <1>5 DEF QueriesTypeOK, Nodes, KeepsPlaces, Queries

LEMMA QInvImpliesOperands ==
  ASSUME QInv
  PROVE  OperandsAreSet
<1>1. /\ SInv /\ structure \in Structures /\ position \in Nat /\ Len(result) \in Nat
      /\ pass # "serialize" => Serialized
      /\ pass = "up" => position <= Len(result) /\ query \in Queries /\ query # "GetMarginals"
      /\ pass = "down" => position >= 1
      /\ \A n \in Nodes : user_data[n] # <<>> <=> n \in SetNodes
  BY PlaceFacts DEF QInv, SInv, ListIsTyped, Control, ScratchFollowsPass, IsSet
<1>2. ASSUME pass # "serialize", position >= 1, position <= Len(result)
      PROVE  /\ ChildrenIn(structure, At) \subseteq FromOn(position + 1)
             /\ ChildrenIn(structure, At) \subseteq Nodes
             /\ ChildrenIn(structure, At) \cup {At} \subseteq Range(result)
  BY <1>1, <1>2, PlaceFacts, ChildrenAreLater DEF At
<1>3. ASSUME pass = "up", position > 0
      PROVE  CASE query = "IsConsistent" -> ChildrenIn(structure, At) \subseteq FromOn(position + 1)
               [] query \in {"Evaluate", "ModelCount"} -> ChildrenIn(structure, At) \subseteq DOMAIN cache
               [] OTHER -> \A c \in ChildrenIn(structure, At) : user_data[c] # <<>>
  <2>1. /\ ChildrenIn(structure, At) \subseteq FromOn(position + 1)
        /\ ChildrenIn(structure, At) \subseteq Nodes
    BY <1>1, <1>2, <1>3
  <2>2. query \in {"Evaluate", "ModelCount"} => DOMAIN cache = FromOn(position + 1)
    BY <1>3 DEF QInv, MapFollowsPass, UsesMap
  <2>3. query \in {"GetMPESolution", "WritePsddToFile"} => SetNodes = FromOn(position + 1)
    BY <1>3 DEF SetNodes
  <2>4. query \in {"GetMPESolution", "WritePsddToFile"} =>
          \A c \in ChildrenIn(structure, At) : user_data[c] # <<>>
    BY <1>1, <2>1, <2>3
  <2>5. query \in {"IsConsistent", "Evaluate", "ModelCount", "GetMPESolution", "WritePsddToFile"}
    BY <1>1, <1>3 DEF Queries
  <2>6. QED
    BY <2>1, <2>2, <2>4, <2>5
<1>4. ASSUME pass = "down", position <= Len(result)
      PROVE  \A c \in ChildrenIn(structure, At) \cup {At} : user_data[c] # <<>>
  <2>1. SetNodes = Range(result)
    BY <1>4 DEF SetNodes
  <2>2. ChildrenIn(structure, At) \cup {At} \subseteq Range(result) /\ Range(result) \subseteq Nodes
    BY <1>1, <1>2, <1>4, PlaceFacts
  <2>3. QED
    BY <1>1, <2>1, <2>2
<1>5. ASSUME pass = "extract"
      PROVE  \A n \in Range(node_queue) : user_data[n] # <<>>
  <2>1. SetNodes = Range(result) /\ Range(node_queue) \subseteq Range(result)
    BY <1>5 DEF SetNodes, QInv, QueueIsListed
  <2>2. QED
    BY <1>1, <2>1, PlaceFacts
<1>6. QED
  BY <1>3, <1>4, <1>5 DEF OperandsAreSet

LEMMA QInvImpliesNothing ==
  ASSUME QInv
  PROVE  NothingIsLeft
<1>1. SUFFICES ASSUME query = "none"
               PROVE  activation_flag = {} /\ \A n \in Nodes : user_data[n] = <<>>
  BY DEF NothingIsLeft, Nodes
<1>2. pass = "none"
  BY <1>1 DEF QInv, Control
<1>3. SetNodes = {}
  BY <1>2 DEF SetNodes
<1>4. QED
  BY <1>1, <1>3 DEF QInv, FlagsFollowPass, ScratchFollowsPass, IsSet

\* The state of the questions has its types.
THEOREM QueriesTypeCorrect == Spec => []QueriesTypeOK
<1>1. QInv => QueriesTypeOK
  BY QInvImpliesTyped
<1>2. QED
  BY <1>1, QueriesInvariant, PTL

\* No function reads a flag, a map or a scratch word before it is set in this call,
\* not even where GetMPESolution follows the elements it chose.
THEOREM OperandsSet == Spec => []OperandsAreSet
<1>1. QInv => OperandsAreSet
  BY QInvImpliesOperands
<1>2. QED
  BY <1>1, QueriesInvariant, PTL

\* No question leaves a flag or a scratch word in a node.
THEOREM NothingLeft == Spec => []NothingIsLeft
<1>1. QInv => NothingIsLeft
  BY QInvImpliesNothing
<1>2. QED
  BY <1>1, QueriesInvariant, PTL

-----------------------------------------------------------------------------
(***************************************************************************)
(* Sums.  SumFunctionOnSet takes the elements of the set one by one in an  *)
(* order that is not known; the lemmas say that it does not matter.        *)
(***************************************************************************)
\* Induction on numbers and on finite sets.
LEMMA AllNumbers ==
  ASSUME NEW G \in SUBSET Nat, 0 \in G, \A k \in G : k + 1 \in G
  PROVE  G = Nat
<1>1. SUFFICES ASSUME Nat \ G # {} PROVE FALSE
  OBVIOUS
<1>2. PICK m \in Nat \ G : \A y \in Nat \ G : m <= y
  BY <1>1, LeastOf
<1>3. m # 0 /\ m - 1 \in Nat /\ ~ m <= m - 1 /\ (m - 1) + 1 = m
  BY <1>2
<1>4. m - 1 \in G
  BY <1>2, <1>3
<1>5. QED
  BY <1>2, <1>3, <1>4

LEMMA AllSubsets ==
  ASSUME NEW U, IsFiniteSet(U), NEW G \in SUBSET (SUBSET U), {} \in G,
         \A S \in G : \A x \in U \ S : S \cup {x} \in G
  PROVE  U \in G
<1> DEFINE K == {k \in Nat : \A S \in SUBSET U : Cardinality(S) = k => S \in G}
<1>1. 0 \in K
  <2>1. ASSUME NEW S \in SUBSET U, Cardinality(S) = 0 PROVE S = {}
    BY <2>1, FS_Subset, FS_EmptySet
  <2>2. QED
    BY <2>1
<1>2. ASSUME NEW k \in K PROVE k + 1 \in K
  <2>1. ASSUME NEW S \in SUBSET U, Cardinality(S) = k + 1 PROVE S \in G
    <3>1. IsFiniteSet(S) /\ k \in Nat
      BY FS_Subset
    <3>2. S # {}
      BY <2>1, <3>1, FS_EmptySet
    <3>3. PICK x \in S : TRUE
      BY <3>2
    <3>4. Cardinality(S \ {x}) = k
      <4>1. Cardinality(S \ {x}) = (k + 1) - 1
        BY <2>1, <3>1, <3>3, FS_RemoveElement
      <4>2. (k + 1) - 1 = k
        BY <3>1
      <4>3. QED
        BY <4>1, <4>2
    <3>5. S \ {x} \in G /\ x \in U \ (S \ {x})
      BY <3>3, <3>4
    <3>6. (S \ {x}) \cup {x} \in G
      BY <3>5
    <3>7. (S \ {x}) \cup {x} = S
      BY <3>3
    <3>8. QED
      BY <3>6, <3>7
  <2>2. k + 1 \in Nat
    OBVIOUS
  <2>3. QED
    BY <2>1, <2>2
<1>3. K = Nat
  <2> HIDE DEF K
  <2>1. K \in SUBSET Nat
    BY DEF K
  <2>2. QED
    BY <1>1, <1>2, <2>1, AllNumbers
<1>4. Cardinality(U) \in K
  BY <1>3, FS_CardinalityType
<1>5. QED
  BY <1>4

\* What the fold does with the subsets of S.
SumStep(f, s, sum) == LET x == CHOOSE y \in s : TRUE IN f[x] + sum[s \ {x}]
IsSumming(f, T, sum) ==
  sum = [s \in T |-> IF s = {} THEN 0 ELSE SumStep(f, s, sum)]

LEMMA ChosenIn ==
  ASSUME NEW s, s # {}
  PROVE  (CHOOSE x \in s : TRUE) \in s
<1>1. \E x : x \in s
  OBVIOUS
<1>2. QED
  BY <1>1, Zenon

LEMMA SummingExists ==
  ASSUME NEW f, NEW S, IsFiniteSet(S)
  PROVE  \E sum : IsSumming(f, SUBSET S, sum)
<1> DEFINE D(k) == {s \in SUBSET S : Cardinality(s) <= k}
           K == {k \in Nat : \E sum : IsSumming(f, D(k), sum)}
<1>0. \A s \in SUBSET S : IsFiniteSet(s) /\ Cardinality(s) \in Nat
  BY FS_Subset, FS_CardinalityType
<1>1. 0 \in K
  <2>1. \A s \in D(0) : s = {}
    BY <1>0, FS_EmptySet
  <2>2. PICK sum : sum = [s \in D(0) |-> 0]
    OBVIOUS
  <2>3. [s \in D(0) |-> 0] = [s \in D(0) |-> IF s = {} THEN 0 ELSE SumStep(f, s, sum)]
    <3> HIDE DEF D
    <3>1. \A s \in D(0) : 0 = IF s = {} THEN 0 ELSE SumStep(f, s, sum)
      BY <2>1
    <3>2. QED
      BY <3>1, Zenon
  <2>4. IsSumming(f, D(0), sum)
    BY <2>2, <2>3, Zenon DEF IsSumming
  <2>5. QED
    BY <2>4
<1>2. ASSUME NEW k \in K PROVE k + 1 \in K
  <2>1. k \in Nat /\ k + 1 \in Nat
    OBVIOUS
  <2>2. PICK sum : IsSumming(f, D(k), sum)
    OBVIOUS
  <2>3. PICK more : more = [s \in D(k + 1) |-> IF s = {} THEN 0 ELSE SumStep(f, s, sum)]
    OBVIOUS
  <2>4. ASSUME NEW s \in D(k + 1), s # {}
        PROVE  s \ {CHOOSE x \in s : TRUE} \in D(k)
    <3>1. PICK x \in s : x = CHOOSE y \in s : TRUE
      BY <2>4, ChosenIn
    <3>2. Cardinality(s \ {x}) = Cardinality(s) - 1
      BY <1>0, <3>1, FS_RemoveElement
    <3>3. Cardinality(s) <= k + 1 /\ Cardinality(s) \in Nat
      BY <1>0
    <3>4. Cardinality(s) - 1 <= k
      BY <2>1, <3>3
    <3>5. s \ {x} \in D(k)
      BY <3>2, <3>4
    <3>6. QED
      BY <3>1, <3>5
  <2>5. D(k) \subseteq D(k + 1)
    <3>1. \A c \in Nat : c <= k => c <= k + 1
      BY <2>1
    <3>2. QED
      BY <1>0, <3>1
  <2> HIDE DEF D
  <2>6. \A s \in D(k) : sum[s] = IF s = {} THEN 0 ELSE SumStep(f, s, sum)
    <3>1. sum = [s \in D(k) |-> IF s = {} THEN 0 ELSE SumStep(f, s, sum)]
      BY <2>2, Zenon DEF IsSumming
    <3>2. QED
      BY <3>1, Zenon
  <2>7. \A s \in D(k + 1) : more[s] = IF s = {} THEN 0 ELSE SumStep(f, s, sum)
    BY <2>3
  <2>8. \A s \in D(k) : more[s] = sum[s]
    BY <2>5, <2>6, <2>7
  <2>9. \A s \in D(k + 1) : (IF s = {} THEN 0 ELSE SumStep(f, s, sum)) =
                            (IF s = {} THEN 0 ELSE SumStep(f, s, more))
    BY <2>4, <2>8 DEF SumStep
  <2>10. [s \in D(k + 1) |-> IF s = {} THEN 0 ELSE SumStep(f, s, sum)] =
         [s \in D(k + 1) |-> IF s = {} THEN 0 ELSE SumStep(f, s, more)]
    BY <2>9, Zenon
  <2>11. IsSumming(f, D(k + 1), more)
    BY <2>3, <2>10, Zenon DEF IsSumming
  <2>12. QED
    BY <2>1, <2>11
<1>3. K = Nat
  <2> HIDE DEF K
  <2>1. K \in SUBSET Nat
    BY DEF K
  <2>2. QED
    BY <1>1, <1>2, <2>1, AllNumbers
<1>4. Cardinality(S) \in K
  BY <1>3, <1>0
<1>5. D(Cardinality(S)) = SUBSET S
  BY FS_Subset
<1>6. QED
  BY <1>4, <1>5

\* The sum is the value of a function that sums on the subsets.
LEMMA SumIsOfSumming ==
  ASSUME NEW f, NEW S, IsFiniteSet(S)
  PROVE  \E sum : IsSumming(f, SUBSET S, sum) /\ SumFunctionOnSet(f, S) = sum[S]
<1>1. PICK h : h = [s \in SUBSET S |-> IF s = {} THEN 0
                                       ELSE LET x == CHOOSE y \in s : TRUE IN f[x] + h[s \ {x}]]
  <2>1. PICK h : IsSumming(f, SUBSET S, h)
    BY SummingExists
  <2>2. QED
    BY <2>1, Zenon DEF IsSumming, SumStep
<1>2. \E g : /\ g = [s \in SUBSET S |-> IF s = {} THEN 0
                                        ELSE LET x == CHOOSE y \in s : TRUE IN f[x] + g[s \ {x}]]
             /\ SumFunctionOnSet(f, S) = g[S]
  BY <1>1, Zenon DEF SumFunctionOnSet, FoldFunctionOnSet, MapThenFoldSet
<1>3. QED
  BY <1>2, Zenon DEF IsSumming, SumStep

\* Two functions that agree have the same sums, on the subsets of any set.
LEMMA SummingAgrees ==
  ASSUME NEW f, NEW g, NEW S, NEW T, NEW a, NEW b, IsFiniteSet(S), T \subseteq S,
         \A i \in T : f[i] = g[i], IsSumming(f, SUBSET S, a), IsSumming(g, SUBSET T, b)
  PROVE  \A s \in SUBSET T : a[s] = b[s]
<1> DEFINE K == {k \in Nat : \A s \in SUBSET T : Cardinality(s) = k => a[s] = b[s]}
<1>0. \A s \in SUBSET T : IsFiniteSet(s) /\ Cardinality(s) \in Nat
  BY FS_Subset, FS_CardinalityType
<1>1. \A s \in SUBSET T : /\ a[s] = IF s = {} THEN 0 ELSE SumStep(f, s, a)
                          /\ b[s] = IF s = {} THEN 0 ELSE SumStep(g, s, b)
  BY DEF IsSumming
<1>2. 0 \in K
  <2>1. ASSUME NEW s \in SUBSET T, Cardinality(s) = 0 PROVE s = {}
    BY <2>1, <1>0, FS_EmptySet
  <2>2. QED
    BY <1>1, <2>1
<1>3. ASSUME NEW k \in K PROVE k + 1 \in K
  <2>1. ASSUME NEW s \in SUBSET T, Cardinality(s) = k + 1 PROVE a[s] = b[s]
    <3>1. s # {} /\ k \in Nat
      BY <2>1, <1>0, FS_EmptySet
    <3>2. PICK x \in s : x = CHOOSE y \in s : TRUE
      BY <3>1, ChosenIn
    <3>3. Cardinality(s \ {x}) = (k + 1) - 1
      BY <2>1, <1>0, <3>2, FS_RemoveElement
    <3>4. (k + 1) - 1 = k
      BY <3>1
    <3>5. a[s \ {x}] = b[s \ {x}]
      BY <3>3, <3>4
    <3>6. a[s] = f[x] + a[s \ {x}] /\ b[s] = g[x] + b[s \ {x}]
      BY <1>1, <3>1, <3>2 DEF SumStep
    <3>7. QED
      BY <3>2, <3>5, <3>6
  <2>2. k + 1 \in Nat
    OBVIOUS
  <2>3. QED
    BY <2>1, <2>2
<1>4. K = Nat
  <2> HIDE DEF K
  <2>1. K \in SUBSET Nat
    BY DEF K
  <2>2. QED
    BY <1>2, <1>3, <2>1, AllNumbers
<1>5. QED
  BY <1>0, <1>4

LEMMA SumsAgree ==
  ASSUME NEW f, NEW g, NEW S, IsFiniteSet(S), \A i \in S : f[i] = g[i]
  PROVE  SumFunctionOnSet(f, S) = SumFunctionOnSet(g, S)
<1>1. PICK a : IsSumming(f, SUBSET S, a) /\ SumFunctionOnSet(f, S) = a[S]
  BY SumIsOfSumming
<1>2. PICK b : IsSumming(g, SUBSET S, b) /\ SumFunctionOnSet(g, S) = b[S]
  BY SumIsOfSumming
<1>3. S \in SUBSET S
  OBVIOUS
<1>4. \A s \in SUBSET S : a[s] = b[s]
  BY <1>1, <1>2, SummingAgrees
<1>5. QED
  BY <1>1, <1>2, <1>4

LEMMA SumOfNone == ASSUME NEW f PROVE SumFunctionOnSet(f, {}) = 0
<1>1. PICK a : IsSumming(f, SUBSET {}, a) /\ SumFunctionOnSet(f, {}) = a[{}]
  BY SumIsOfSumming, FS_EmptySet
<1>2. QED
  BY <1>1 DEF IsSumming

LEMMA SumOfChosen ==
  ASSUME NEW f, NEW S, IsFiniteSet(S), S # {}
  PROVE  \E x \in S : SumFunctionOnSet(f, S) = f[x] + SumFunctionOnSet(f, S \ {x})
<1>1. PICK x \in S : x = CHOOSE y \in S : TRUE
  BY ChosenIn
<1>2. IsFiniteSet(S \ {x}) /\ S \ {x} \subseteq S
  BY FS_RemoveElement
<1>3. PICK a : IsSumming(f, SUBSET S, a) /\ SumFunctionOnSet(f, S) = a[S]
  BY SumIsOfSumming
<1>4. PICK b : /\ IsSumming(f, SUBSET (S \ {x}), b)
               /\ SumFunctionOnSet(f, S \ {x}) = b[S \ {x}]
  BY <1>2, SumIsOfSumming
<1>5. \A s \in SUBSET (S \ {x}) : a[s] = b[s]
  <2>1. PICK T : T = S \ {x}
    OBVIOUS
  <2>2. /\ IsSumming(f, SUBSET S, a) /\ IsSumming(f, SUBSET T, b) /\ T \subseteq S
        /\ \A i \in T : f[i] = f[i]
    BY <1>3, <1>4, <2>1
  <2>3. \A s \in SUBSET T : a[s] = b[s]
    BY <2>2, SummingAgrees
  <2>4. QED
    BY <2>1, <2>3
<1>6. a[S] = f[x] + a[S \ {x}]
  BY <1>1, <1>3 DEF IsSumming, SumStep
<1>7. QED
  BY <1>3, <1>4, <1>5, <1>6

LEMMA SumIsNat ==
  ASSUME NEW f, NEW S, IsFiniteSet(S), \A i \in S : f[i] \in Nat
  PROVE  SumFunctionOnSet(f, S) \in Nat
<1> DEFINE K == {k \in Nat : \A s \in SUBSET S : Cardinality(s) = k => SumFunctionOnSet(f, s) \in Nat}
<1>0. \A s \in SUBSET S : IsFiniteSet(s) /\ Cardinality(s) \in Nat
  BY FS_Subset, FS_CardinalityType
<1>1. 0 \in K
  <2>1. ASSUME NEW s \in SUBSET S, Cardinality(s) = 0 PROVE s = {}
    BY <2>1, <1>0, FS_EmptySet
  <2>2. QED
    BY <2>1, SumOfNone
<1>2. ASSUME NEW k \in K PROVE k + 1 \in K
  <2>1. ASSUME NEW s \in SUBSET S, Cardinality(s) = k + 1 PROVE SumFunctionOnSet(f, s) \in Nat
    <3>1. s # {} /\ k \in Nat
      BY <2>1, <1>0, FS_EmptySet
    <3>2. PICK x \in s : SumFunctionOnSet(f, s) = f[x] + SumFunctionOnSet(f, s \ {x})
      BY <1>0, <3>1, SumOfChosen
    <3>3. Cardinality(s \ {x}) = (k + 1) - 1
      BY <2>1, <1>0, <3>2, FS_RemoveElement
    <3>4. (k + 1) - 1 = k
      BY <3>1
    <3>5. SumFunctionOnSet(f, s \ {x}) \in Nat
      BY <3>3, <3>4
    <3>6. QED
      BY <3>2, <3>5
  <2>2. k + 1 \in Nat
    OBVIOUS
  <2>3. QED
    BY <2>1, <2>2
<1>3. K = Nat
  <2> HIDE DEF K
  <2>1. K \in SUBSET Nat
    BY DEF K
  <2>2. QED
    BY <1>1, <1>2, <2>1, AllNumbers
<1>4. QED
  BY <1>0, <1>3

LEMMA SumWithout ==
  ASSUME NEW f, NEW S, IsFiniteSet(S), \A i \in S : f[i] \in Nat
  PROVE  \A y \in S : SumFunctionOnSet(f, S) = f[y] + SumFunctionOnSet(f, S \ {y})
<1> DEFINE Splits(s) == \A y \in s : SumFunctionOnSet(f, s) = f[y] + SumFunctionOnSet(f, s \ {y})
           K == {k \in Nat : \A s \in SUBSET S : Cardinality(s) = k => Splits(s)}
<1>0. \A s \in SUBSET S : IsFiniteSet(s) /\ Cardinality(s) \in Nat
  BY FS_Subset, FS_CardinalityType
<1>1. 0 \in K
  <2>1. ASSUME NEW s \in SUBSET S, Cardinality(s) = 0 PROVE s = {}
    BY <2>1, <1>0, FS_EmptySet
  <2>2. QED
    BY <2>1
<1>2. ASSUME NEW k \in K PROVE k + 1 \in K
  <2>1. ASSUME NEW s \in SUBSET S, Cardinality(s) = k + 1, NEW y \in s
        PROVE  SumFunctionOnSet(f, s) = f[y] + SumFunctionOnSet(f, s \ {y})
    <3>1. PICK x \in s : SumFunctionOnSet(f, s) = f[x] + SumFunctionOnSet(f, s \ {x})
      BY <1>0, SumOfChosen
    <3>2. SUFFICES ASSUME x # y PROVE SumFunctionOnSet(f, s) = f[y] + SumFunctionOnSet(f, s \ {y})
      BY <3>1
    <3>3. /\ Cardinality(s \ {x}) = (k + 1) - 1 /\ Cardinality(s \ {y}) = (k + 1) - 1
          /\ k \in Nat
      BY <2>1, <1>0, FS_RemoveElement
    <3>4. (k + 1) - 1 = k
      BY <3>3
    <3>5. Splits(s \ {x}) /\ Splits(s \ {y})
      <4>1. s \ {x} \in SUBSET S /\ s \ {y} \in SUBSET S
        OBVIOUS
      <4>2. QED
        BY <3>3, <3>4, <4>1
    <3>6. y \in s \ {x} /\ x \in s \ {y} /\ (s \ {x}) \ {y} = (s \ {y}) \ {x}
      BY <3>2
    <3>7. PICK r : r = SumFunctionOnSet(f, (s \ {x}) \ {y})
      OBVIOUS
    <3>8. /\ SumFunctionOnSet(f, s \ {x}) = f[y] + r
          /\ SumFunctionOnSet(f, s \ {y}) = f[x] + r
      BY <3>5, <3>6, <3>7
    <3>9. f[x] \in Nat /\ f[y] \in Nat /\ r \in Nat
      <4>1. (s \ {x}) \ {y} \in SUBSET S
        OBVIOUS
      <4>2. QED
        BY <1>0, <3>7, <4>1, SumIsNat
    <3>10. QED
      BY ONLY <3>1, <3>8, <3>9
  <2>2. k + 1 \in Nat
    OBVIOUS
  <2>3. QED
    BY <2>1, <2>2
<1>3. K = Nat
  <2> HIDE DEF K
  <2>1. K \in SUBSET Nat
    BY DEF K
  <2>2. QED
    BY <1>1, <1>2, <2>1, AllNumbers
<1>4. Splits(S)
  BY <1>0, <1>3
<1>5. QED
  BY <1>4

LEMMA SumWith ==
  ASSUME NEW f, NEW S, IsFiniteSet(S), \A i \in S : f[i] \in Nat, NEW x, x \notin S, f[x] \in Nat
  PROVE  SumFunctionOnSet(f, S \cup {x}) = SumFunctionOnSet(f, S) + f[x]
<1>1. IsFiniteSet(S \cup {x}) /\ (S \cup {x}) \ {x} = S
  BY FS_AddElement
<1>2. SumFunctionOnSet(f, S \cup {x}) = f[x] + SumFunctionOnSet(f, S)
  BY <1>1, SumWithout
<1>3. SumFunctionOnSet(f, S) \in Nat
  BY SumIsNat
<1>4. QED
  BY ONLY <1>2, <1>3, f[x] \in Nat

\* Arithmetic in the form in which it is used.
LEMMA Products ==
  ASSUME NEW a \in Nat, NEW b \in Nat, NEW c \in Nat
  PROVE  /\ a * b \in Nat /\ a * b = b * a /\ (a + b) * c = a * c + b * c
         /\ (a * b) * c = a * (b * c) /\ 0 * a = 0 /\ a * 0 = 0 /\ 1 * a = a
         /\ a * b > 0 <=> a > 0 /\ b > 0
  OBVIOUS

LEMMA SumOfSums ==
  ASSUME NEW f, NEW g, NEW h, NEW S, IsFiniteSet(S),
         \A i \in S : f[i] \in Nat /\ g[i] \in Nat /\ h[i] = f[i] + g[i]
  PROVE  SumFunctionOnSet(h, S) = SumFunctionOnSet(f, S) + SumFunctionOnSet(g, S)
<1> DEFINE G == {T \in SUBSET S : SumFunctionOnSet(h, T) = SumFunctionOnSet(f, T) + SumFunctionOnSet(g, T)}
<1>1. {} \in G
  BY SumOfNone
<1>2. ASSUME NEW T \in G, NEW x \in S \ T PROVE T \cup {x} \in G
  <2>1. IsFiniteSet(T) /\ T \cup {x} \in SUBSET S
    BY FS_Subset
  <2>2. \A i \in S : f[i] \in Nat /\ g[i] \in Nat /\ h[i] \in Nat
    OBVIOUS
  <2>3. /\ SumFunctionOnSet(f, T \cup {x}) = SumFunctionOnSet(f, T) + f[x]
        /\ SumFunctionOnSet(g, T \cup {x}) = SumFunctionOnSet(g, T) + g[x]
        /\ SumFunctionOnSet(h, T \cup {x}) = SumFunctionOnSet(h, T) + h[x]
        /\ SumFunctionOnSet(f, T) \in Nat /\ SumFunctionOnSet(g, T) \in Nat
    BY <2>1, <2>2, SumWith, SumIsNat
  <2>4. SumFunctionOnSet(h, T) = SumFunctionOnSet(f, T) + SumFunctionOnSet(g, T)
    OBVIOUS
  <2>5. h[x] = f[x] + g[x] /\ f[x] \in Nat /\ g[x] \in Nat
    OBVIOUS
  <2>6. SumFunctionOnSet(h, T \cup {x}) = SumFunctionOnSet(f, T \cup {x}) + SumFunctionOnSet(g, T \cup {x})
    BY ONLY <2>3, <2>4, <2>5
  <2>7. QED
    BY <2>1, <2>6
<1>3. G \in SUBSET (SUBSET S)
  OBVIOUS
<1> HIDE DEF G
<1>4. S \in G
  BY <1>1, <1>2, <1>3, AllSubsets
<1>5. QED
  BY <1>4 DEF G

LEMMA SumScaled ==
  ASSUME NEW f, NEW h, NEW c \in Nat, NEW S, IsFiniteSet(S),
         \A i \in S : f[i] \in Nat /\ h[i] = f[i] * c
  PROVE  SumFunctionOnSet(h, S) = SumFunctionOnSet(f, S) * c
<1> DEFINE G == {T \in SUBSET S : SumFunctionOnSet(h, T) = SumFunctionOnSet(f, T) * c}
<1>1. {} \in G
  <2>1. 0 = 0 * c
    OBVIOUS
  <2>2. QED
    BY <2>1, SumOfNone
<1>2. ASSUME NEW T \in G, NEW x \in S \ T PROVE T \cup {x} \in G
  <2>1. IsFiniteSet(T) /\ T \cup {x} \in SUBSET S
    BY FS_Subset
  <2>2. \A i \in S : f[i] \in Nat /\ h[i] \in Nat
    BY Products
  <2>3. /\ SumFunctionOnSet(f, T \cup {x}) = SumFunctionOnSet(f, T) + f[x]
        /\ SumFunctionOnSet(h, T \cup {x}) = SumFunctionOnSet(h, T) + h[x]
        /\ SumFunctionOnSet(f, T) \in Nat
    BY <2>1, <2>2, SumWith, SumIsNat
  <2>4. SumFunctionOnSet(h, T) = SumFunctionOnSet(f, T) * c
    OBVIOUS
  <2>5. h[x] = f[x] * c /\ f[x] \in Nat
    OBVIOUS
  <2>6. SumFunctionOnSet(h, T \cup {x}) = SumFunctionOnSet(f, T \cup {x}) * c
    BY <2>3, <2>4, <2>5, Products
  <2>7. QED
    BY <2>1, <2>6
<1>3. G \in SUBSET (SUBSET S)
  OBVIOUS
<1> HIDE DEF G
<1>4. S \in G
  BY <1>1, <1>2, <1>3, AllSubsets
<1>5. QED
  BY <1>4 DEF G

LEMMA SumOfUnion ==
  ASSUME NEW f, NEW S, NEW R, IsFiniteSet(S), IsFiniteSet(R), S \cap R = {},
         \A i \in S \cup R : f[i] \in Nat
  PROVE  SumFunctionOnSet(f, S \cup R) = SumFunctionOnSet(f, S) + SumFunctionOnSet(f, R)
<1> DEFINE G == {T \in SUBSET S : SumFunctionOnSet(f, T \cup R) = SumFunctionOnSet(f, T) + SumFunctionOnSet(f, R)}
<1>0. SumFunctionOnSet(f, R) \in Nat
  BY SumIsNat
<1>1. {} \in G
  <2>1. {} \cup R = R
    OBVIOUS
  <2>2. QED
    BY <1>0, <2>1, SumOfNone
<1>2. ASSUME NEW T \in G, NEW x \in S \ T PROVE T \cup {x} \in G
  <2>1. /\ IsFiniteSet(T) /\ T \cup {x} \in SUBSET S /\ IsFiniteSet(T \cup R)
        /\ (T \cup {x}) \cup R = (T \cup R) \cup {x} /\ x \notin T \cup R
    BY FS_Subset, FS_Union
  <2>2. \A i \in T \cup R : f[i] \in Nat
    OBVIOUS
  <2>3. /\ SumFunctionOnSet(f, T \cup {x}) = SumFunctionOnSet(f, T) + f[x]
        /\ SumFunctionOnSet(f, T) \in Nat
    BY <2>1, <2>2, SumWith, SumIsNat
  <2>4. SumFunctionOnSet(f, (T \cup R) \cup {x}) = SumFunctionOnSet(f, T \cup R) + f[x]
    BY <2>1, <2>2, SumWith
  <2>5. SumFunctionOnSet(f, T \cup R) = SumFunctionOnSet(f, T) + SumFunctionOnSet(f, R)
    OBVIOUS
  <2>6. f[x] \in Nat
    OBVIOUS
  <2>7. SumFunctionOnSet(f, (T \cup R) \cup {x}) = SumFunctionOnSet(f, T \cup {x}) + SumFunctionOnSet(f, R)
    BY ONLY <1>0, <2>3, <2>4, <2>5, <2>6
  <2>8. QED
    BY <2>1, <2>7
<1>3. G \in SUBSET (SUBSET S)
  OBVIOUS
<1> HIDE DEF G
<1>4. S \in G
  BY <1>1, <1>2, <1>3, AllSubsets
<1>5. QED
  BY <1>4 DEF G

\* The image of S under m, which takes no value twice.
LEMMA SumOfImage ==
  ASSUME NEW f, NEW h, NEW m, NEW S, IsFiniteSet(S),
         \A i, j \in S : m[i] = m[j] => i = j,
         \A i \in S : f[m[i]] \in Nat /\ h[i] = f[m[i]]
  PROVE  /\ IsFiniteSet({m[i] : i \in S})
         /\ SumFunctionOnSet(f, {m[i] : i \in S}) = SumFunctionOnSet(h, S)
<1> DEFINE Image(T) == {m[i] : i \in T}
           G == {T \in SUBSET S : /\ IsFiniteSet(Image(T))
                                  /\ SumFunctionOnSet(f, Image(T)) = SumFunctionOnSet(h, T)}
<1>1. {} \in G
  <2>1. Image({}) = {}
    OBVIOUS
  <2> HIDE DEF Image
  <2>2. QED
    BY <2>1, SumOfNone, FS_EmptySet
<1>2. ASSUME NEW T \in G, NEW x \in S \ T PROVE T \cup {x} \in G
  <2>1. /\ IsFiniteSet(T) /\ T \cup {x} \in SUBSET S
        /\ Image(T \cup {x}) = Image(T) \cup {m[x]} /\ m[x] \notin Image(T)
        /\ \A y \in Image(T) : f[y] \in Nat
    BY FS_Subset
  <2> HIDE DEF Image
  <2>2. \A i \in S : h[i] \in Nat
    OBVIOUS
  <2>3. SumFunctionOnSet(h, T \cup {x}) = SumFunctionOnSet(h, T) + h[x]
    BY <2>1, <2>2, SumWith
  <2>4. IsFiniteSet(Image(T)) /\ SumFunctionOnSet(f, Image(T)) = SumFunctionOnSet(h, T)
    OBVIOUS
  <2>5. /\ SumFunctionOnSet(f, Image(T) \cup {m[x]}) = SumFunctionOnSet(f, Image(T)) + f[m[x]]
        /\ IsFiniteSet(Image(T) \cup {m[x]})
    <3>1. PICK R, y : R = Image(T) /\ y = m[x]
      OBVIOUS
    <3>2. IsFiniteSet(R) /\ y \notin R /\ f[y] \in Nat /\ \A i \in R : f[i] \in Nat
      BY <2>1, <2>4, <3>1
    <3>3. SumFunctionOnSet(f, R \cup {y}) = SumFunctionOnSet(f, R) + f[y] /\ IsFiniteSet(R \cup {y})
      BY <3>2, SumWith, FS_AddElement
    <3>4. QED
      BY <3>1, <3>3
  <2>6. QED
    BY <2>1, <2>3, <2>4, <2>5
<1>3. G \in SUBSET (SUBSET S)
  OBVIOUS
<1> HIDE DEF G
<1>4. S \in G
  BY <1>1, <1>2, <1>3, AllSubsets
<1>5. QED
  BY <1>4 DEF G

\* Two sums in either order.
AreTransposed(F, H, A, I) == \A a \in A : \A i \in I : F[a][i] \in Nat /\ H[i][a] = F[a][i]
AreSumsOver(sums, F, A, I) == \A a \in A : sums[a] = SumFunctionOnSet(F[a], I)

LEMMA SumsExchange ==
  ASSUME NEW F, NEW H, NEW rows, NEW columns, NEW A, NEW I, IsFiniteSet(A), IsFiniteSet(I),
         AreTransposed(F, H, A, I), AreSumsOver(rows, F, A, I), AreSumsOver(columns, H, I, A)
  PROVE  SumFunctionOnSet(rows, A) = SumFunctionOnSet(columns, I)
<1> USE DEF AreTransposed, AreSumsOver
<1> DEFINE Column(i) == H[i]
           Columns(T) == [i \in I |-> SumFunctionOnSet(Column(i), T)]
           G == {T \in SUBSET A : SumFunctionOnSet(rows, T) = SumFunctionOnSet(Columns(T), I)}
<1>1. {} \in G
  <2>1. PICK zeros : zeros = Columns({})
    OBVIOUS
  <2>2. \A i \in I : zeros[i] = 0
    BY <2>1, SumOfNone
  <2>3. SumFunctionOnSet(zeros, I) = 0
    <3>1. PICK f : f = [i \in I |-> 0]
      OBVIOUS
    <3>2. \A i \in I : f[i] \in Nat /\ zeros[i] = f[i] * 0
      BY <2>2, <3>1
    <3>3. SumFunctionOnSet(zeros, I) = SumFunctionOnSet(f, I) * 0
      BY <3>2, SumScaled
    <3>4. SumFunctionOnSet(f, I) \in Nat
      BY <3>2, SumIsNat
    <3>5. QED
      BY <3>3, <3>4, Products
  <2>4. QED
    BY <2>1, <2>3, SumOfNone
<1>2. ASSUME NEW T \in G, NEW x \in A \ T PROVE T \cup {x} \in G
  <2>1. IsFiniteSet(T) /\ T \cup {x} \in SUBSET A
    BY FS_Subset
  <2>2. \A a \in A : rows[a] \in Nat
    BY SumIsNat
  <2>3. SumFunctionOnSet(rows, T \cup {x}) = SumFunctionOnSet(rows, T) + rows[x]
    BY <2>1, <2>2, SumWith
  <2>4. PICK old, new : old = Columns(T) /\ new = Columns(T \cup {x})
    OBVIOUS
  <2>5. ASSUME NEW i \in I PROVE old[i] \in Nat /\ F[x][i] \in Nat /\ new[i] = old[i] + F[x][i]
    <3>1. PICK c : c = Column(i)
      OBVIOUS
    <3>2. (\A a \in A : c[a] \in Nat) /\ c[x] = F[x][i]
      BY <3>1
    <3>3. SumFunctionOnSet(c, T \cup {x}) = SumFunctionOnSet(c, T) + c[x] /\ SumFunctionOnSet(c, T) \in Nat
      BY <2>1, <3>2, SumWith, SumIsNat
    <3>4. old[i] = SumFunctionOnSet(c, T) /\ new[i] = SumFunctionOnSet(c, T \cup {x})
      BY <2>4, <3>1
    <3>5. QED
      BY <3>2, <3>3, <3>4
  <2>6. SumFunctionOnSet(new, I) = SumFunctionOnSet(old, I) + SumFunctionOnSet(F[x], I)
    <3>1. PICK row : row = F[x]
      OBVIOUS
    <3>2. \A i \in I : old[i] \in Nat /\ row[i] \in Nat /\ new[i] = old[i] + row[i]
      BY <2>5, <3>1
    <3>3. SumFunctionOnSet(new, I) = SumFunctionOnSet(old, I) + SumFunctionOnSet(row, I)
      BY <3>2, SumOfSums
    <3>4. QED
      BY <3>1, <3>3
  <2>7. SumFunctionOnSet(rows, T) = SumFunctionOnSet(old, I)
    BY <2>4
  <2>8. SumFunctionOnSet(rows, T \cup {x}) = SumFunctionOnSet(new, I)
    BY <2>3, <2>6, <2>7
  <2>9. QED
    BY <2>1, <2>4, <2>8
<1>3. G \in SUBSET (SUBSET A)
  OBVIOUS
<1>4. A \in G
  <2> HIDE DEF G
  <2>1. QED
    BY <1>1, <1>2, <1>3, AllSubsets
<1>5. PICK last : last = Columns(A)
  OBVIOUS
<1>6. \A i \in I : last[i] = columns[i]
  BY <1>5
<1>7. SumFunctionOnSet(last, I) = SumFunctionOnSet(columns, I)
  BY <1>6, SumsAgree
<1>8. QED
  BY <1>4, <1>5, <1>7

\* X has the unions of a set of Y and one of Z, each for one pair only.
AreUnions(X, Y, Z) ==
  /\ \A x \in X : \E y \in Y, z \in Z : x = y \cup z
  /\ \A y \in Y, z \in Z : y \cup z \in X
  /\ \A y, u \in Y : \A z, v \in Z : y \cup z = u \cup v => y = u /\ z = v
AreProducts(h, f, g, Y, Z) == \A y \in Y : \A z \in Z : h[y \cup z] = f[y] * g[z]

\* A product of sums is the sum of the products, over the unions of the sets of both.
LEMMA SumOfProductsOfUnions ==
  ASSUME NEW f, NEW g, NEW h, NEW Y, NEW Z, NEW X, IsFiniteSet(Y), IsFiniteSet(Z),
         \A y \in Y : f[y] \in Nat, \A z \in Z : g[z] \in Nat,
         AreProducts(h, f, g, Y, Z), AreUnions(X, Y, Z)
  PROVE  IsFiniteSet(X) /\ SumFunctionOnSet(h, X) = SumFunctionOnSet(f, Y) * SumFunctionOnSet(g, Z)
<1> DEFINE Unions(T) == {y \cup z : y \in T, z \in Z}
           Both(T) == SumFunctionOnSet(f, T) * SumFunctionOnSet(g, Z)
           G == {T \in SUBSET Y : IsFiniteSet(Unions(T)) /\ SumFunctionOnSet(h, Unions(T)) = Both(T)}
<1>0. SumFunctionOnSet(g, Z) \in Nat
  BY SumIsNat
<1>1. {} \in G
  <2>1. Unions({}) = {}
    OBVIOUS
  <2>2. Both({}) = 0
    BY ONLY <1>0, SumOfNone, Products
  <2> HIDE DEF Unions, Both
  <2>3. QED
    BY <2>1, <2>2, SumOfNone, FS_EmptySet
<1>2. ASSUME NEW T \in G, NEW x \in Y \ T PROVE T \cup {x} \in G
  <2> HIDE DEF Unions, Both
  <2>0. /\ T \in SUBSET Y /\ x \in Y /\ x \notin T
        /\ IsFiniteSet(Unions(T)) /\ SumFunctionOnSet(h, Unions(T)) = Both(T)
    OBVIOUS
  <2> HIDE DEF G
  <2>1. IsFiniteSet(T) /\ T \cup {x} \in SUBSET Y
    BY <2>0, FS_Subset
  <2>2. PICK m, p : m = [z \in Z |-> x \cup z] /\ p = [z \in Z |-> g[z] * f[x]]
    BY Zenon
  <2>3. /\ \A z, v \in Z : m[z] = m[v] => z = v
        /\ \A z \in Z : h[m[z]] \in Nat /\ p[z] = h[m[z]]
    <3>1. \A z, v \in Z : m[z] = m[v] => z = v
      BY <2>0, <2>2 DEF AreUnions
    <3>2. \A z \in Z : m[z] = x \cup z /\ p[z] = g[z] * f[x]
      BY ONLY <2>2
    <3>3. \A z \in Z : h[x \cup z] = f[x] * g[z] /\ f[x] \in Nat /\ g[z] \in Nat
      BY <2>0, Zenon DEF AreProducts
    <3>4. \A z \in Z : f[x] * g[z] \in Nat /\ f[x] * g[z] = g[z] * f[x]
      BY ONLY <3>3, Products
    <3>5. ASSUME NEW z \in Z PROVE h[m[z]] \in Nat /\ p[z] = h[m[z]]
      <4>1. h[m[z]] = f[x] * g[z] /\ p[z] = g[z] * f[x]
        BY <3>2, <3>3, Zenon
      <4>2. QED
        BY ONLY <3>4, <4>1, z \in Z
    <3>6. QED
      BY <3>1, <3>5
  <2>4. PICK R : R = {m[z] : z \in Z}
    BY Zenon
  <2>5. IsFiniteSet(R) /\ SumFunctionOnSet(h, R) = SumFunctionOnSet(p, Z)
    BY ONLY IsFiniteSet(Z), <2>3, <2>4, SumOfImage
  <2>6. SumFunctionOnSet(p, Z) = SumFunctionOnSet(g, Z) * f[x]
    <3>1. f[x] \in Nat /\ \A z \in Z : g[z] \in Nat /\ p[z] = g[z] * f[x]
      BY <2>0, <2>2
    <3>2. QED
      BY ONLY IsFiniteSet(Z), <3>1, SumScaled
  <2>7. PICK U : U = Unions(T)
    BY Zenon
  <2>8. Unions(T \cup {x}) = U \cup R
    <3>1. R = {x \cup z : z \in Z}
      BY ONLY <2>2, <2>4
    <3>2. QED
      BY ONLY <2>7, <3>1 DEF Unions
  <2>9. U \cap R = {} /\ \A w \in U \cup R : h[w] \in Nat
    <3>1. \A w \in U : \E y \in T, z \in Z : w = y \cup z
      BY ONLY <2>7 DEF Unions
    <3>2. \A w \in R : \E z \in Z : w = x \cup z
      BY ONLY <2>2, <2>4
    <3>3. ASSUME NEW y \in Y, NEW z \in Z PROVE h[y \cup z] \in Nat
      <4>1. h[y \cup z] = f[y] * g[z] /\ f[y] \in Nat /\ g[z] \in Nat
        BY Zenon DEF AreProducts
      <4>2. QED
        BY ONLY <4>1, Products
    <3>4. ASSUME NEW w \in U \cap R PROVE FALSE
      <4>1. PICK y \in T, z \in Z, v \in Z : w = y \cup z /\ w = x \cup v
        BY <3>1, <3>2
      <4>2. y = x
        BY ONLY <2>0, <4>1, AreUnions(X, Y, Z) DEF AreUnions
      <4>3. QED
        BY <2>0, <4>2
    <3>5. \A w \in U \cup R : h[w] \in Nat
      <4>1. \A y \in T : y \in Y
        BY <2>0
      <4>2. QED
        BY ONLY <2>0, <3>1, <3>2, <3>3, <4>1
    <3>6. QED
      BY <3>4, <3>5
  <2>10. IsFiniteSet(U) /\ SumFunctionOnSet(h, U) = Both(T)
    BY <2>0, <2>7
  <2>11. /\ IsFiniteSet(U \cup R)
         /\ SumFunctionOnSet(h, U \cup R) = SumFunctionOnSet(h, U) + SumFunctionOnSet(h, R)
    BY ONLY <2>5, <2>9, <2>10, SumOfUnion, FS_Union
  <2>12. /\ SumFunctionOnSet(f, T \cup {x}) = SumFunctionOnSet(f, T) + f[x]
         /\ SumFunctionOnSet(f, T) \in Nat /\ f[x] \in Nat
    BY <2>0, <2>1, SumWith, SumIsNat
  <2>13. SumFunctionOnSet(h, U \cup R) = Both(T \cup {x})
    <3>1. PICK a, b, c, d, e : /\ a = SumFunctionOnSet(f, T) /\ b = SumFunctionOnSet(g, Z) /\ c = f[x]
                               /\ d = SumFunctionOnSet(h, U \cup R) /\ e = SumFunctionOnSet(f, T \cup {x})
      BY Zenon
    <3>2. d = a * b + b * c /\ e = a + c /\ a \in Nat /\ b \in Nat /\ c \in Nat
      BY ONLY <1>0, <2>5, <2>6, <2>10, <2>11, <2>12, <3>1 DEF Both
    <3>3. d = e * b
      BY ONLY <3>2, Products
    <3>4. QED
      BY <3>1, <3>3 DEF Both
  <2>14. QED
    BY <2>1, <2>8, <2>11, <2>13 DEF G
<1>3. G \in SUBSET (SUBSET Y)
  OBVIOUS
<1>4. Y \in G
  <2> HIDE DEF G
  <2>1. QED
    BY <1>1, <1>2, <1>3, AllSubsets
<1>5. X = Unions(Y)
  <2>1. \A x \in X : x \in Unions(Y)
    BY DEF AreUnions
  <2>2. QED
    BY ONLY <2>1, AreUnions(X, Y, Z) DEF AreUnions
<1>6. QED
  BY <1>4, <1>5

LEMMA SumOfZeros ==
  ASSUME NEW f, NEW S, IsFiniteSet(S), \A i \in S : f[i] = 0
  PROVE  SumFunctionOnSet(f, S) = 0
<1>1. \A i \in S : f[i] \in Nat /\ f[i] = f[i] * 0
  OBVIOUS
<1>2. SumFunctionOnSet(f, S) = SumFunctionOnSet(f, S) * 0
  BY <1>1, SumScaled
<1>3. SumFunctionOnSet(f, S) \in Nat
  BY <1>1, SumIsNat
<1>4. QED
  BY ONLY <1>2, <1>3, Products

LEMMA SumOfOne ==
  ASSUME NEW f, NEW S, IsFiniteSet(S), NEW i \in S, f[i] \in Nat, \A j \in S : j # i => f[j] = 0
  PROVE  SumFunctionOnSet(f, S) = f[i]
<1>1. IsFiniteSet(S \ {i}) /\ \A j \in S \ {i} : f[j] = 0
  BY FS_RemoveElement
<1>2. SumFunctionOnSet(f, S \ {i}) = 0
  BY <1>1, SumOfZeros
<1>3. SumFunctionOnSet(f, S) = f[i] + SumFunctionOnSet(f, S \ {i})
  BY SumWithout
<1>4. QED
  BY <1>2, <1>3

LEMMA SumIsPositive ==
  ASSUME NEW f, NEW S, IsFiniteSet(S), \A i \in S : f[i] \in Nat
  PROVE  SumFunctionOnSet(f, S) > 0 <=> \E i \in S : f[i] > 0
<1>1. ASSUME NEW i \in S, f[i] > 0 PROVE SumFunctionOnSet(f, S) > 0
  <2>1. IsFiniteSet(S \ {i})
    BY FS_RemoveElement
  <2>2. SumFunctionOnSet(f, S \ {i}) \in Nat
    BY <2>1, SumIsNat
  <2>3. SumFunctionOnSet(f, S) = f[i] + SumFunctionOnSet(f, S \ {i})
    BY SumWithout
  <2>4. QED
    BY <1>1, <2>2, <2>3
<1>2. ASSUME ~ \E i \in S : f[i] > 0 PROVE ~ SumFunctionOnSet(f, S) > 0
  <2>1. \A i \in S : f[i] = 0
    BY <1>2
  <2>2. QED
    BY <2>1, SumOfZeros
<1>3. QED
  BY <1>1, <1>2

\* A sum of zeros and ones counts the ones.
LEMMA SumCounts ==
  ASSUME NEW f, NEW S, IsFiniteSet(S), \A i \in S : f[i] \in {0, 1}
  PROVE  SumFunctionOnSet(f, S) = Cardinality({i \in S : f[i] = 1})
<1> DEFINE Ones(T) == {i \in T : f[i] = 1}
           G == {T \in SUBSET S : SumFunctionOnSet(f, T) = Cardinality(Ones(T))}
<1>1. {} \in G
  <2>1. Ones({}) = {}
    OBVIOUS
  <2> HIDE DEF Ones
  <2>2. QED
    BY <2>1, SumOfNone, FS_EmptySet
<1>2. ASSUME NEW T \in G, NEW x \in S \ T PROVE T \cup {x} \in G
  <2>1. IsFiniteSet(T) /\ T \cup {x} \in SUBSET S /\ x \notin T
    BY FS_Subset
  <2>2. PICK R : R = Ones(T)
    OBVIOUS
  <2>3. IsFiniteSet(R) /\ x \notin R /\ SumFunctionOnSet(f, T) = Cardinality(R)
    BY <2>1, <2>2, FS_Subset
  <2>4. SumFunctionOnSet(f, T \cup {x}) = SumFunctionOnSet(f, T) + f[x]
    BY <2>1, SumWith
  <2>5. CASE f[x] = 1
    <3>1. Ones(T \cup {x}) = R \cup {x}
      BY <2>2, <2>5
    <3>2. Cardinality(R \cup {x}) = Cardinality(R) + 1
      BY <2>3, FS_AddElement
    <3>3. QED
      BY <2>1, <2>3, <2>4, <2>5, <3>1, <3>2
  <2>6. CASE f[x] = 0
    <3>1. Ones(T \cup {x}) = R
      BY <2>2, <2>6
    <3>2. Cardinality(R) \in Nat
      BY <2>3, FS_CardinalityType
    <3>3. Cardinality(R) + 0 = Cardinality(R)
      BY <3>2
    <3>4. QED
      BY <2>1, <2>3, <2>4, <2>6, <3>1, <3>3
  <2>7. QED
    BY <2>5, <2>6
<1>3. G \in SUBSET (SUBSET S)
  OBVIOUS
<1>4. S \in G
  <2> HIDE DEF G
  <2>1. QED
    BY <1>1, <1>2, <1>3, AllSubsets
<1>5. QED
  BY <1>4

-----------------------------------------------------------------------------
(***************************************************************************)
(* Recursion on the nodes.  F[n][v] is the value of n where those of the   *)
(* nodes made before are given by v.                                       *)
(***************************************************************************)
IsRecursive(D, V, F) ==
  /\ D \in SUBSET Nat /\ V # {} /\ F \in [D -> [[D -> V] -> V]]
  /\ \A n \in D : \A v, w \in [D -> V] :
       (\A c \in D : c < n => v[c] = w[c]) => F[n][v] = F[n][w]

SolvesBelow(D, F, k, v) == \A n \in D : n < k => v[n] = F[n][v]

LEMMA SolutionsAgree ==
  ASSUME NEW D, NEW V, NEW F, IsRecursive(D, V, F), NEW k \in Nat,
         NEW v \in [D -> V], NEW w \in [D -> V], SolvesBelow(D, F, k, v), SolvesBelow(D, F, k, w)
  PROVE  \A n \in D : n < k => v[n] = w[n]
<1> DEFINE T == {n \in D : n < k /\ v[n] # w[n]}
<1>1. SUFFICES ASSUME T # {} PROVE FALSE
  OBVIOUS
<1>2. T \in SUBSET Nat
  BY DEF IsRecursive
<1>3. PICK n \in T : \A c \in T : n <= c
  <2> HIDE DEF T
  <2>1. QED
    BY <1>1, <1>2, LeastOf
<1>4. n \in D /\ n < k /\ v[n] # w[n] /\ n \in Nat
  BY <1>2
<1>5. ASSUME NEW c \in D, c < n PROVE v[c] = w[c]
  <2>1. c \in Nat /\ c < k /\ ~ n <= c
    BY <1>4, <1>5 DEF IsRecursive
  <2>2. c \notin T
    <3> HIDE DEF T
    <3>1. QED
      BY <1>3, <2>1
  <2>3. QED
    BY <2>1, <2>2
<1>6. F[n][v] = F[n][w]
  BY <1>4, <1>5 DEF IsRecursive
<1>7. QED
  BY <1>4, <1>6 DEF SolvesBelow

LEMMA SolutionExists ==
  ASSUME NEW D, NEW V, NEW F, IsRecursive(D, V, F)
  PROVE  \E v \in [D -> V] : \A n \in D : v[n] = F[n][v]
<1> DEFINE K == {k \in Nat : \E v \in [D -> V] : SolvesBelow(D, F, k, v)}
<1>0. D \in SUBSET Nat /\ V # {} /\ \A n \in D : \A v \in [D -> V] : F[n][v] \in V
  BY DEF IsRecursive
<1>1. 0 \in K
  <2>1. PICK y \in V : TRUE
    BY <1>0
  <2>2. [n \in D |-> y] \in [D -> V]
    OBVIOUS
  <2>3. \A n \in D : ~ n < 0
    BY <1>0
  <2>4. \A v : SolvesBelow(D, F, 0, v)
    BY <2>3 DEF SolvesBelow
  <2>5. QED
    BY <2>2, <2>4
<1>2. ASSUME NEW k \in K PROVE k + 1 \in K
  <2>1. k \in Nat /\ k + 1 \in Nat
    OBVIOUS
  <2>2. PICK v \in [D -> V] : SolvesBelow(D, F, k, v)
    OBVIOUS
  <2>3. PICK w : w = [n \in D |-> IF n = k THEN F[k][v] ELSE v[n]]
    OBVIOUS
  <2>4. w \in [D -> V] /\ \A n \in D : w[n] = IF n = k THEN F[k][v] ELSE v[n]
    BY <1>0, <2>3
  <2>5. ASSUME NEW n \in D, n < k + 1 PROVE w[n] = F[n][w]
    <3>1. n \in Nat /\ (n < k \/ n = k)
      BY <1>0, <2>1, <2>5
    <3>2. \A c \in D : c < n => v[c] = w[c]
      BY <1>0, <2>1, <2>4, <3>1
    <3>3. F[n][v] = F[n][w]
      BY <2>4, <3>2 DEF IsRecursive
    <3>4. CASE n = k
      BY <2>4, <3>3, <3>4
    <3>5. CASE n < k
      BY <2>2, <2>4, <3>1, <3>3, <3>5 DEF SolvesBelow
    <3>6. QED
      BY <3>1, <3>4, <3>5
  <2>6. SolvesBelow(D, F, k + 1, w)
    BY <2>5 DEF SolvesBelow
  <2>7. QED
    BY <2>1, <2>4, <2>6
<1>3. K = Nat
  <2> HIDE DEF K
  <2>1. K \in SUBSET Nat
    BY DEF K
  <2>2. QED
    BY <1>1, <1>2, <2>1, AllNumbers
<1>4. \A k \in Nat : \E v \in [D -> V] : SolvesBelow(D, F, k, v)
  BY <1>3
<1>5. PICK vs : vs = [k \in Nat |-> CHOOSE v \in [D -> V] : SolvesBelow(D, F, k, v)]
  OBVIOUS
<1>6. ASSUME NEW k \in Nat PROVE vs[k] \in [D -> V] /\ SolvesBelow(D, F, k, vs[k])
  <2>1. vs[k] = CHOOSE v \in [D -> V] : SolvesBelow(D, F, k, v)
    BY <1>5
  <2>2. \E v \in [D -> V] : SolvesBelow(D, F, k, v)
    BY <1>4
  <2>3. QED
    BY <2>1, <2>2, Zenon
<1>7. PICK v : v = [n \in D |-> vs[n + 1][n]]
  OBVIOUS
<1>8. v \in [D -> V] /\ \A n \in D : v[n] = vs[n + 1][n]
  BY <1>0, <1>6, <1>7
<1>9. ASSUME NEW n \in D PROVE v[n] = F[n][v]
  <2>1. n \in Nat /\ n + 1 \in Nat /\ n < n + 1
    BY <1>0
  <2>2. PICK w \in [D -> V] : w = vs[n + 1] /\ SolvesBelow(D, F, n + 1, w)
    BY <1>6, <2>1
  <2>3. ASSUME NEW c \in D, c < n PROVE w[c] = v[c]
    <3>1. c \in Nat /\ c + 1 \in Nat /\ c < c + 1 /\ \A b \in Nat : b < c + 1 => b < n + 1
      BY <1>0, <2>1, <2>3
    <3>2. PICK u \in [D -> V] : u = vs[c + 1] /\ SolvesBelow(D, F, c + 1, u)
      BY <1>6, <3>1
    <3>3. SolvesBelow(D, F, c + 1, w)
      BY <1>0, <2>2, <3>1 DEF SolvesBelow
    <3>4. u[c] = w[c]
      <4>1. PICK k \in Nat : k = c + 1
        BY <3>1
      <4>2. SolvesBelow(D, F, k, u) /\ SolvesBelow(D, F, k, w) /\ c < k
        BY <3>1, <3>2, <3>3, <4>1
      <4>3. QED
        BY <4>2, SolutionsAgree
    <3>5. QED
      BY <1>8, <3>2, <3>4
  <2>4. F[n][w] = F[n][v]
    BY <1>8, <2>3 DEF IsRecursive
  <2>5. w[n] = F[n][w] /\ v[n] = w[n]
    BY <1>8, <2>1, <2>2 DEF SolvesBelow
  <2>6. QED
    BY <2>4, <2>5
<1>10. QED
  BY <1>8, <1>9

-----------------------------------------------------------------------------
(***************************************************************************)
(* Values: what a loop from the children upwards computes from numbers for *)
(* the leaves and weights for the elements.                                *)
(***************************************************************************)
ValueAt(g, leaf, weight, v, n) ==
  IF g[n].type = "decision"
    THEN SumFunction([i \in DOMAIN g[n].primes |->
                        v[g[n].primes[i]] * v[g[n].subs[i]] * weight[n][i]])
    ELSE leaf[n]
AreValues(g, leaf, weight, v) == \A n \in DOMAIN g : v[n] = ValueAt(g, leaf, weight, v, n)
AreNumbers(g, leaf, weight) ==
  \A n \in DOMAIN g : leaf[n] \in Nat /\ \A i \in DOMAIN g[n].primes : weight[n][i] \in Nat

LEMMA ElementsAreFinite ==
  ASSUME NEW g \in Structures, NEW n \in DOMAIN g
  PROVE  IsFiniteSet(DOMAIN g[n].primes)
<1>1. g[n].primes \in Seq(Nat)
  BY PsddGraphAssumption DEF IsConformed, PsddNode
<1>2. PICK k \in Nat : DOMAIN g[n].primes = 1..k
  BY <1>1
<1>3. QED
  BY <1>2, FS_Interval

LEMMA ProductOfThree ==
  ASSUME NEW a \in Nat, NEW b \in Nat, NEW c \in Nat
  PROVE  a * b * c \in Nat
BY Products

LEMMA ValueIsNat ==
  ASSUME NEW g \in Structures, NEW leaf, NEW weight, AreNumbers(g, leaf, weight),
         NEW v \in [DOMAIN g -> Nat], NEW n \in DOMAIN g
  PROVE  ValueAt(g, leaf, weight, v, n) \in Nat
<1>1. PICK f : f = [i \in DOMAIN g[n].primes |-> v[g[n].primes[i]] * v[g[n].subs[i]] * weight[n][i]]
  BY Zenon
<1>2. DOMAIN f = DOMAIN g[n].primes /\ \A i \in DOMAIN g[n].primes : f[i] \in Nat
  <2>1. ASSUME NEW i \in DOMAIN g[n].primes PROVE f[i] \in Nat
    <3>1. f[i] = v[g[n].primes[i]] * v[g[n].subs[i]] * weight[n][i]
      BY <1>1
    <3>2. v[g[n].primes[i]] \in Nat /\ v[g[n].subs[i]] \in Nat /\ weight[n][i] \in Nat
      BY GraphFacts DEF AreNumbers
    <3>3. QED
      BY <3>1, <3>2, ProductOfThree
  <2>2. QED
    BY <1>1, <2>1
<1>3. SumFunction(f) \in Nat
  BY <1>2, ElementsAreFinite, SumIsNat DEF SumFunction
<1>4. QED
  BY <1>1, <1>3 DEF ValueAt, AreNumbers

\* The value of a node is of those of its elements.
LEMMA ValueIsOfElements ==
  ASSUME NEW g \in Structures, NEW leaf, NEW weight, NEW n \in DOMAIN g, NEW v, NEW w,
         \A i \in DOMAIN g[n].primes : /\ v[g[n].primes[i]] = w[g[n].primes[i]]
                                       /\ v[g[n].subs[i]] = w[g[n].subs[i]]
  PROVE  ValueAt(g, leaf, weight, v, n) = ValueAt(g, leaf, weight, w, n)
<1>1. [i \in DOMAIN g[n].primes |-> v[g[n].primes[i]] * v[g[n].subs[i]] * weight[n][i]] =
      [i \in DOMAIN g[n].primes |-> w[g[n].primes[i]] * w[g[n].subs[i]] * weight[n][i]]
  BY Zenon
<1>2. QED
  BY <1>1, Zenon DEF ValueAt

LEMMA ValuesExist ==
  ASSUME NEW g \in Structures, NEW leaf, NEW weight, AreNumbers(g, leaf, weight)
  PROVE  \E v \in [DOMAIN g -> Nat] : AreValues(g, leaf, weight, v)
<1>1. PICK F : F = [n \in DOMAIN g |-> [v \in [DOMAIN g -> Nat] |-> ValueAt(g, leaf, weight, v, n)]]
  BY Zenon
<1>2. \A n \in DOMAIN g : \A v \in [DOMAIN g -> Nat] :
        F[n][v] = ValueAt(g, leaf, weight, v, n) /\ F[n][v] \in Nat
  BY <1>1, ValueIsNat
<1>3. F \in [DOMAIN g -> [[DOMAIN g -> Nat] -> Nat]]
  BY <1>1, ValueIsNat
<1>4. ASSUME NEW n \in DOMAIN g, NEW v \in [DOMAIN g -> Nat], NEW w \in [DOMAIN g -> Nat],
             \A c \in DOMAIN g : c < n => v[c] = w[c]
      PROVE  F[n][v] = F[n][w]
  <2>1. \A i \in DOMAIN g[n].primes : /\ v[g[n].primes[i]] = w[g[n].primes[i]]
                                      /\ v[g[n].subs[i]] = w[g[n].subs[i]]
    BY <1>4, GraphFacts
  <2>2. ValueAt(g, leaf, weight, v, n) = ValueAt(g, leaf, weight, w, n)
    BY <2>1, ValueIsOfElements
  <2>3. QED
    BY <1>2, <2>2
<1>5. DOMAIN g \in SUBSET Nat /\ Nat # {}
  BY GraphFacts
<1>6. IsRecursive(DOMAIN g, Nat, F)
  BY <1>3, <1>4, <1>5 DEF IsRecursive
<1>7. PICK v \in [DOMAIN g -> Nat] : \A n \in DOMAIN g : v[n] = F[n][v]
  BY <1>6, SolutionExists
<1>8. QED
  BY <1>2, <1>7 DEF AreValues

\* There is one way to give values.
LEMMA ValuesAgree ==
  ASSUME NEW g \in Structures, NEW leaf, NEW weight, NEW v, NEW w,
         AreValues(g, leaf, weight, v), AreValues(g, leaf, weight, w)
  PROVE  \A n \in DOMAIN g : v[n] = w[n]
<1> DEFINE T == {n \in DOMAIN g : v[n] # w[n]}
<1>1. SUFFICES ASSUME T # {} PROVE FALSE
  OBVIOUS
<1>2. T \in SUBSET Nat
  BY GraphFacts
<1>3. PICK n \in T : \A c \in T : n <= c
  <2> HIDE DEF T
  <2>1. QED
    BY <1>1, <1>2, LeastOf
<1>4. n \in DOMAIN g /\ v[n] # w[n]
  OBVIOUS
<1>5. ASSUME NEW c \in DOMAIN g, c < n PROVE v[c] = w[c]
  <2>1. c \in Nat /\ n \in Nat /\ ~ n <= c
    BY <1>4, <1>5, GraphFacts
  <2>2. c \notin T
    <3> HIDE DEF T
    <3>1. QED
      BY <1>3, <2>1
  <2>3. QED
    BY <2>2
<1>6. \A i \in DOMAIN g[n].primes : /\ v[g[n].primes[i]] = w[g[n].primes[i]]
                                    /\ v[g[n].subs[i]] = w[g[n].subs[i]]
  BY <1>4, <1>5, GraphFacts
<1>7. ValueAt(g, leaf, weight, v, n) = ValueAt(g, leaf, weight, w, n)
  BY <1>4, <1>6, ValueIsOfElements
<1>8. QED
  BY <1>4, <1>7 DEF AreValues

-----------------------------------------------------------------------------
(***************************************************************************)
(* Variables: those under a decision node are those under the prime and    *)
(* those under the sub of any of its elements.                             *)
(***************************************************************************)
LEMMA ChildIsOfElement ==
  ASSUME NEW g \in Structures, NEW n \in DOMAIN g, NEW c \in ChildrenIn(g, n)
  PROVE  /\ c \in DOMAIN g
         /\ \E i \in DOMAIN g[n].primes : c = g[n].primes[i] \/ c = g[n].subs[i]
<1>1. IsConformed(g)
  BY PsddGraphAssumption
<1>2. /\ g[n] \in PsddNode /\ c \in DOMAIN g /\ Len(g[n].primes) = Len(g[n].subs)
  BY <1>1 DEF IsConformed
<1>3. PICK ps \in Seq(Nat), ss \in Seq(Nat), k \in Nat :
        ps = g[n].primes /\ ss = g[n].subs /\ k = Len(ps) /\ k = Len(ss)
  BY <1>2 DEF PsddNode
<1>4. DOMAIN ps = 1..k /\ Len(ps \o ss) = k + k /\ ps \o ss \in Seq(Nat)
      /\ \A j \in 1..k + k : (ps \o ss)[j] = IF j <= k THEN ps[j] ELSE ss[j - k]
  <2>1. /\ ps \o ss \in Seq(Nat) /\ Len(ps \o ss) = Len(ps) + Len(ss)
        /\ \A j \in 1..Len(ps) + Len(ss) :
             (ps \o ss)[j] = IF j <= Len(ps) THEN ps[j] ELSE ss[j - Len(ps)]
    BY ConcatProperties
  <2>2. Len(ps) = k /\ Len(ss) = k
    BY <1>3, Zenon
  <2>3. DOMAIN ps = 1..Len(ps)
    BY ONLY ps \in Seq(Nat)
  <2>4. QED
    BY <2>1, <2>2, <2>3, Zenon
<1>5. PICK j \in DOMAIN (ps \o ss) : c = (ps \o ss)[j]
  BY <1>3 DEF ChildrenIn, ChildList, Range
<1>6. j \in 1..k + k
  BY <1>4, <1>5
<1>7. CASE j <= k
  BY <1>2, <1>3, <1>4, <1>5, <1>6, <1>7
<1>8. CASE ~ j <= k
  <2>1. j - k \in 1..k
    BY ONLY <1>6, <1>8, k \in Nat
  <2>2. c = ss[j - k]
    BY ONLY <1>4, <1>5, <1>6, <1>8
  <2>3. QED
    BY <1>2, <1>3, <1>4, <2>1, <2>2
<1>9. QED
  BY <1>7, <1>8

LEMMA BelowOfNode ==
  ASSUME NEW g \in Structures, NEW n \in DOMAIN g
  PROVE  \A m : m \in Below(g, <<n>>) <=> m = n \/ \E c \in ChildrenIn(g, n) : m \in Below(g, <<c>>)
<1>1. \A m : Range(<<m>>) = {m}
  BY DEF Range
<1>2. \A m \in DOMAIN g : m \in Below(g, <<m>>)
  BY <1>1 DEF Below
<1>3. ASSUME NEW c \in ChildrenIn(g, n) PROVE Below(g, <<c>>) \subseteq Below(g, <<n>>)
  BY <1>1, <1>3 DEF Below, IsClosedIn
<1>4. PICK S : S = {n} \cup UNION {Below(g, <<c>>) : c \in ChildrenIn(g, n)}
  BY Zenon
<1>5. S \in SUBSET DOMAIN g
  BY <1>4 DEF Below
<1>6. IsClosedIn(g, S)
  <2>1. ASSUME NEW m \in S, NEW c \in ChildrenIn(g, m) PROVE c \in S
    <3>1. CASE m = n
      <4>1. c \in Below(g, <<c>>)
        BY <1>2, <2>1, <3>1, ChildIsOfElement
      <4>2. QED
        BY <1>4, <2>1, <3>1, <4>1
    <3>2. CASE m # n
      <4>1. PICK b \in ChildrenIn(g, n) : m \in Below(g, <<b>>)
        BY <1>4, <3>2
      <4>2. c \in DOMAIN g
        BY <1>5, <2>1, ChildIsOfElement
      <4>3. c \in Below(g, <<b>>)
        BY <2>1, <4>1, <4>2 DEF Below, IsClosedIn
      <4>4. QED
        BY <1>4, <4>1, <4>3
    <3>3. QED
      BY <3>1, <3>2
  <2>2. QED
    BY <2>1 DEF IsClosedIn
<1>7. Below(g, <<n>>) \subseteq S
  BY <1>1, <1>4, <1>5, <1>6 DEF Below
<1>8. QED
  BY <1>2, <1>3, <1>4, <1>7

LEMMA VariablesOfNode ==
  ASSUME NEW g \in Structures, NEW n \in DOMAIN g
  PROVE  /\ g[n].type # "decision" => VariablesUnder(g, n) = {g[n].variable}
         /\ g[n].type = "decision" =>
              \E P, S :
                /\ VariablesUnder(g, n) = P \cup S /\ P \cap S = {}
                /\ \A i \in DOMAIN g[n].primes : /\ VariablesUnder(g, g[n].primes[i]) = P
                                                 /\ VariablesUnder(g, g[n].subs[i]) = S
<1>1. \A v : v \in VariablesUnder(g, n) <=>
               \/ g[n].type # "decision" /\ v = g[n].variable
               \/ \E c \in ChildrenIn(g, n) : v \in VariablesUnder(g, c)
  <2>1. \A m : m \in Below(g, <<n>>) => m \in DOMAIN g
    BY DEF Below
  <2>2. \A k : \A v : v \in VariablesUnder(g, k) <=>
                 \E m \in Below(g, <<k>>) : g[m].type # "decision" /\ v = g[m].variable
    BY DEF VariablesUnder
  <2>3. \A m : m \in Below(g, <<n>>) <=> m = n \/ \E c \in ChildrenIn(g, n) : m \in Below(g, <<c>>)
    BY BelowOfNode
  <2>4. QED
    <3>1. ASSUME NEW v, v \in VariablesUnder(g, n)
          PROVE  \/ g[n].type # "decision" /\ v = g[n].variable
                 \/ \E c \in ChildrenIn(g, n) : v \in VariablesUnder(g, c)
      <4>1. PICK m \in Below(g, <<n>>) : g[m].type # "decision" /\ v = g[m].variable
        BY <2>2, <3>1
      <4>2. m = n \/ \E c \in ChildrenIn(g, n) : m \in Below(g, <<c>>)
        BY <2>3, <4>1
      <4>3. QED
        BY <2>2, <4>1, <4>2
    <3>2. ASSUME NEW v, NEW c \in ChildrenIn(g, n), v \in VariablesUnder(g, c)
          PROVE  v \in VariablesUnder(g, n)
      <4>1. PICK m \in Below(g, <<c>>) : g[m].type # "decision" /\ v = g[m].variable
        BY <2>2, <3>2
      <4>2. m \in Below(g, <<n>>)
        BY <2>3, <4>1
      <4>3. QED
        BY <2>2, <4>1, <4>2
    <3>3. g[n].type # "decision" => g[n].variable \in VariablesUnder(g, n)
      BY <2>2, <2>3
    <3>4. QED
      BY <3>1, <3>2, <3>3
<1>2. \A c \in ChildrenIn(g, n) :
        \E i \in DOMAIN g[n].primes : c = g[n].primes[i] \/ c = g[n].subs[i]
  BY ChildIsOfElement
<1>3. /\ g[n].type # "decision" => DOMAIN g[n].primes = {}
      /\ \A i \in DOMAIN g[n].primes :
           /\ g[n].primes[i] \in ChildrenIn(g, n) /\ g[n].subs[i] \in ChildrenIn(g, n)
           /\ g[n].primes[i] \in DOMAIN g /\ g[n].subs[i] \in DOMAIN g
  BY GraphFacts
<1>4. ASSUME g[n].type # "decision" PROVE VariablesUnder(g, n) = {g[n].variable}
  <2>1. \A v : v \in VariablesUnder(g, n) <=> v = g[n].variable
    BY <1>1, <1>2, <1>3, <1>4
  <2>2. QED
    BY ONLY <2>1
<1>5. ASSUME g[n].type = "decision"
      PROVE  \E P, S :
               /\ VariablesUnder(g, n) = P \cup S /\ P \cap S = {}
               /\ \A i \in DOMAIN g[n].primes : /\ VariablesUnder(g, g[n].primes[i]) = P
                                                /\ VariablesUnder(g, g[n].subs[i]) = S
  <2>1. PICK k \in DOMAIN g[n].primes : TRUE
    <3>1. g[n].primes # <<>> /\ g[n].primes \in Seq(Nat)
      BY <1>5, NodeQueriesAssumption, PsddGraphAssumption DEF IsNormalised, IsConformed, PsddNode
    <3>2. PICK k \in Nat : k = Len(g[n].primes)
      BY <3>1
    <3>3. k # 0 /\ DOMAIN g[n].primes = 1..k
      BY <3>1, <3>2
    <3>4. QED
      BY <3>2, <3>3
  <2>2. PICK P, S : P = VariablesUnder(g, g[n].primes[k]) /\ S = VariablesUnder(g, g[n].subs[k])
    BY Zenon
  <2>3. \A i \in DOMAIN g[n].primes : /\ VariablesUnder(g, g[n].primes[i]) = P
                                      /\ VariablesUnder(g, g[n].subs[i]) = S
    <3>1. \A i, j \in DOMAIN g[n].primes :
            /\ VariablesUnder(g, g[n].primes[i]) = VariablesUnder(g, g[n].primes[j])
            /\ VariablesUnder(g, g[n].subs[i]) = VariablesUnder(g, g[n].subs[j])
      <4>1. PICK under : under = [m \in DOMAIN g |-> VariablesUnder(g, m)]
        BY Zenon
      <4>2. \A i, j \in DOMAIN g[n].primes : /\ under[g[n].primes[i]] = under[g[n].primes[j]]
                                            /\ under[g[n].subs[i]] = under[g[n].subs[j]]
        BY <4>1, DecomposabilityAssumption DEF IsDecomposable
      <4>3. \A i \in DOMAIN g[n].primes : /\ under[g[n].primes[i]] = VariablesUnder(g, g[n].primes[i])
                                          /\ under[g[n].subs[i]] = VariablesUnder(g, g[n].subs[i])
        BY <1>3, <4>1
      <4>4. QED
        BY ONLY <4>2, <4>3
    <3>2. QED
      BY ONLY <2>1, <2>2, <3>1, k \in DOMAIN g[n].primes
  <2>4. P \cap S = {}
    BY <1>3, <2>1, <2>2, DecomposabilityAssumption DEF IsDecomposable
  <2>5. \A v : v \in VariablesUnder(g, n) <=> v \in P \cup S
    BY <1>1, <1>2, <1>3, <1>5, <2>1, <2>3
  <2>6. VariablesUnder(g, n) = P \cup S
    BY ONLY <2>5
  <2>7. QED
    BY <2>3, <2>4, <2>6
<1>6. QED
  BY <1>4, <1>5

-----------------------------------------------------------------------------
(***************************************************************************)
(* The values under an instantiation x, where a leaf has one number if its *)
(* variable is in x and another if not.                                    *)
(***************************************************************************)
LeafIn(g, t, f, x) == [n \in DOMAIN g |-> IF g[n].variable \in x THEN t[n] ELSE f[n]]
AreFactors(g, t, f, weight) == AreNumbers(g, t, weight) /\ AreNumbers(g, f, weight)
ValuesIn(g, t, f, weight, x) ==
  CHOOSE v \in [DOMAIN g -> Nat] : AreValues(g, LeafIn(g, t, f, x), weight, v)

LEMMA ValuesInFacts ==
  ASSUME NEW g \in Structures, NEW t, NEW f, NEW weight, AreFactors(g, t, f, weight), NEW x
  PROVE  /\ ValuesIn(g, t, f, weight, x) \in [DOMAIN g -> Nat]
         /\ AreValues(g, LeafIn(g, t, f, x), weight, ValuesIn(g, t, f, weight, x))
<1>1. PICK leaf : leaf = LeafIn(g, t, f, x)
  BY Zenon
<1>2. AreNumbers(g, leaf, weight)
  BY <1>1 DEF LeafIn, AreFactors, AreNumbers
<1>3. \E v \in [DOMAIN g -> Nat] : AreValues(g, leaf, weight, v)
  BY <1>2, ValuesExist
<1>4. QED
  BY <1>1, <1>3, Zenon DEF ValuesIn

\* The value of a node depends on the variables under it.
AreSameUnder(g, n, x, y) == \A v \in VariablesUnder(g, n) : v \in x <=> v \in y

LEMMA ValuesAreLocal ==
  ASSUME NEW g \in Structures, NEW t, NEW f, NEW weight, AreFactors(g, t, f, weight), NEW x, NEW y
  PROVE  \A n \in DOMAIN g :
           AreSameUnder(g, n, x, y) => ValuesIn(g, t, f, weight, x)[n] = ValuesIn(g, t, f, weight, y)[n]
<1> DEFINE Same(n) == AreSameUnder(g, n, x, y)
<1>1. PICK a, b, p, q : /\ a = ValuesIn(g, t, f, weight, x) /\ b = ValuesIn(g, t, f, weight, y)
                        /\ p = LeafIn(g, t, f, x) /\ q = LeafIn(g, t, f, y)
  BY Zenon
<1>2. /\ a \in [DOMAIN g -> Nat] /\ AreValues(g, p, weight, a)
      /\ b \in [DOMAIN g -> Nat] /\ AreValues(g, q, weight, b)
  BY <1>1, ValuesInFacts
<1> DEFINE T == {n \in DOMAIN g : Same(n) /\ a[n] # b[n]}
<1>3. T = {}
  <2>1. SUFFICES ASSUME T # {} PROVE FALSE
    OBVIOUS
  <2>2. T \in SUBSET Nat
    BY GraphFacts
  <2>3. PICK n \in T : \A c \in T : n <= c
    <3> HIDE DEF T
    <3>1. QED
      BY <2>1, <2>2, LeastOf
  <2>4. n \in DOMAIN g /\ Same(n) /\ a[n] # b[n]
    OBVIOUS
  <2>5. ASSUME NEW c \in DOMAIN g, c < n, Same(c) PROVE a[c] = b[c]
    <3>1. c \in Nat /\ n \in Nat /\ ~ n <= c
      BY <2>4, <2>5, GraphFacts
    <3>2. c \notin T
      <4> HIDE DEF T
      <4>1. QED
        BY <2>3, <3>1
    <3>3. QED
      BY <2>5, <3>2
  <2>6. CASE g[n].type # "decision"
    <3>1. g[n].variable \in x <=> g[n].variable \in y
      BY <2>4, <2>6, VariablesOfNode DEF AreSameUnder
    <3>2. p[n] = q[n]
      BY <1>1, <2>4, <3>1 DEF LeafIn
    <3>3. a[n] = p[n] /\ b[n] = q[n]
      BY <1>2, <2>4, <2>6 DEF AreValues, ValueAt
    <3>4. QED
      BY <2>4, <3>2, <3>3
  <2>7. CASE g[n].type = "decision"
    <3>1. \A i \in DOMAIN g[n].primes : Same(g[n].primes[i]) /\ Same(g[n].subs[i])
      BY <2>4, <2>7, VariablesOfNode DEF AreSameUnder
    <3>2. \A i \in DOMAIN g[n].primes : /\ a[g[n].primes[i]] = b[g[n].primes[i]]
                                        /\ a[g[n].subs[i]] = b[g[n].subs[i]]
      BY <2>4, <2>5, <3>1, GraphFacts
    <3>3. ValueAt(g, p, weight, a, n) = ValueAt(g, p, weight, b, n)
      BY <2>4, <3>2, ValueIsOfElements
    <3>4. ValueAt(g, p, weight, b, n) = ValueAt(g, q, weight, b, n)
      BY <2>7, Zenon DEF ValueAt
    <3>5. QED
      BY <1>2, <2>4, <3>3, <3>4 DEF AreValues
  <2>8. QED
    BY <2>6, <2>7
<1>4. QED
  BY <1>1, <1>3

-----------------------------------------------------------------------------
(***************************************************************************)
(* The instantiations of some variables that agree with evidence, and what *)
(* evidence makes of a leaf: both its numbers where its variable is not    *)
(* observed.                                                               *)
(***************************************************************************)
AgreeingOn(V, e) == {x \in SUBSET V : \A v \in V \cap e.variables : v \in x <=> v \in e.true}
EvidenceLeaf(g, t, f, e) ==
  [n \in DOMAIN g |-> IF g[n].variable \notin e.variables THEN t[n] + f[n]
                      ELSE IF g[n].variable \in e.true THEN t[n] ELSE f[n]]

LEMMA AgreeingOnOne ==
  ASSUME NEW v, NEW e
  PROVE  /\ v \notin e.variables => AgreeingOn({v}, e) = {{}} \cup {{v}}
         /\ v \in e.variables /\ v \in e.true => AgreeingOn({v}, e) = {{v}}
         /\ v \in e.variables /\ v \notin e.true => AgreeingOn({v}, e) = {{}}
<1>1. \A x : x \in SUBSET {v} <=> x = {} \/ x = {v}
  OBVIOUS
<1>2. \A x : x \in AgreeingOn({v}, e) <=>
               (x = {} \/ x = {v}) /\ (v \in e.variables => (v \in x <=> v \in e.true))
  BY <1>1 DEF AgreeingOn
<1>3. QED
  BY ONLY <1>2

LEMMA AgreeingOnBoth ==
  ASSUME NEW P, NEW S, P \cap S = {}, NEW e
  PROVE  /\ AreUnions(AgreeingOn(P \cup S, e), AgreeingOn(P, e), AgreeingOn(S, e))
         /\ \A y \in AgreeingOn(P, e), z \in AgreeingOn(S, e) :
              (\A v \in P : v \in y \cup z <=> v \in y) /\ (\A v \in S : v \in y \cup z <=> v \in z)
<1>1. ASSUME NEW x \in AgreeingOn(P \cup S, e)
      PROVE  x \cap P \in AgreeingOn(P, e) /\ x \cap S \in AgreeingOn(S, e) /\ x = (x \cap P) \cup (x \cap S)
  BY <1>1 DEF AgreeingOn
<1>2. ASSUME NEW y \in AgreeingOn(P, e), NEW z \in AgreeingOn(S, e)
      PROVE  y \cup z \in AgreeingOn(P \cup S, e)
  BY <1>2 DEF AgreeingOn
<1>3. ASSUME NEW y \in AgreeingOn(P, e), NEW u \in AgreeingOn(P, e),
             NEW z \in AgreeingOn(S, e), NEW w \in AgreeingOn(S, e)
      PROVE  /\ y \cup z = u \cup w => y = u /\ z = w
             /\ (\A v \in P : v \in y \cup z <=> v \in y) /\ (\A v \in S : v \in y \cup z <=> v \in z)
  <2>1. y \subseteq P /\ u \subseteq P /\ z \subseteq S /\ w \subseteq S
    BY DEF AgreeingOn
  <2>2. QED
    BY <2>1
<1>4. ASSUME NEW x \in AgreeingOn(P \cup S, e)
      PROVE  \E y \in AgreeingOn(P, e), z \in AgreeingOn(S, e) : x = y \cup z
  <2>1. PICK y, z : y = x \cap P /\ z = x \cap S
    BY Zenon
  <2>2. y \in AgreeingOn(P, e) /\ z \in AgreeingOn(S, e) /\ x = y \cup z
    BY <1>1, <1>4, <2>1
  <2>3. QED
    BY ONLY <2>2
<1>5. AreUnions(AgreeingOn(P \cup S, e), AgreeingOn(P, e), AgreeingOn(S, e))
  <2>1. \A x \in AgreeingOn(P \cup S, e) :
          \E y \in AgreeingOn(P, e), z \in AgreeingOn(S, e) : x = y \cup z
    BY ONLY <1>4
  <2>2. \A y \in AgreeingOn(P, e), z \in AgreeingOn(S, e) : y \cup z \in AgreeingOn(P \cup S, e)
    BY ONLY <1>2
  <2>3. \A y, u \in AgreeingOn(P, e) : \A z, w \in AgreeingOn(S, e) :
          y \cup z = u \cup w => y = u /\ z = w
    BY ONLY <1>3
  <2>4. QED
    BY ONLY <2>1, <2>2, <2>3, Zenon DEF AreUnions
<1>6. \A y \in AgreeingOn(P, e), z \in AgreeingOn(S, e) :
        (\A v \in P : v \in y \cup z <=> v \in y) /\ (\A v \in S : v \in y \cup z <=> v \in z)
  BY ONLY <1>3
<1>7. QED
  BY ONLY <1>5, <1>6

\* The sum over the instantiations of both sides of the product for one element.
AreElementProducts(k, f, g, w, Y, Z) ==
  \A y \in Y : \A z \in Z : k[y \cup z] = f[y] * g[z] * w

LEMMA SumOfElement ==
  ASSUME NEW k, NEW f, NEW g, NEW w \in Nat, NEW Y, NEW Z, NEW A,
         IsFiniteSet(Y), IsFiniteSet(Z), AreUnions(A, Y, Z),
         \A y \in Y : f[y] \in Nat, \A z \in Z : g[z] \in Nat,
         AreElementProducts(k, f, g, w, Y, Z)
  PROVE  /\ IsFiniteSet(A)
         /\ SumFunctionOnSet(k, A) = SumFunctionOnSet(f, Y) * SumFunctionOnSet(g, Z) * w
<1>1. PICK first, second :
        first = [x \in A |-> CHOOSE y \in Y : \E z \in Z : x = y \cup z] /\
        second = [x \in A |-> CHOOSE z \in Z : x = first[x] \cup z]
  BY Zenon
<1>2. \A y \in Y, z \in Z : y \cup z \in A /\ first[y \cup z] = y /\ second[y \cup z] = z
  <2>1. ASSUME NEW y \in Y, NEW z \in Z
        PROVE  y \cup z \in A /\ first[y \cup z] = y /\ second[y \cup z] = z
    <3>1. PICK x : x = y \cup z
      BY Zenon
    <3>2. x \in A
      BY <3>1 DEF AreUnions
    <3>3. first[x] = CHOOSE a \in Y : \E c \in Z : x = a \cup c
      BY <1>1, <3>2, Zenon
    <3>4. \E a \in Y : \E c \in Z : x = a \cup c
      BY <3>1, Zenon
    <3>5. PICK c \in Z : first[x] \in Y /\ x = first[x] \cup c
      BY <3>3, <3>4, Zenon
    <3>6. second[x] = CHOOSE d \in Z : x = first[x] \cup d
      BY <1>1, <3>2, Zenon
    <3>7. second[x] \in Z /\ x = first[x] \cup second[x]
      BY <3>5, <3>6, Zenon
    <3>8. first[x] = y /\ second[x] = z
      <4>1. PICK a, b : a = first[x] /\ b = second[x]
        BY Zenon
      <4>2. a \in Y /\ b \in Z /\ y \cup z = a \cup b
        BY ONLY <3>1, <3>5, <3>7, <4>1
      <4>3. y = a /\ z = b
        BY ONLY <4>2, AreUnions(A, Y, Z), y \in Y, z \in Z DEF AreUnions
      <4>4. QED
        BY ONLY <4>1, <4>3
    <3>9. QED
      BY <3>1, <3>2, <3>8
  <2>2. QED
    BY ONLY <2>1
<1>3. PICK h : h = [x \in A |-> f[first[x]] * g[second[x]]]
  BY Zenon
<1>4. ASSUME NEW y \in Y, NEW z \in Z
      PROVE  /\ h[y \cup z] = f[y] * g[z] /\ h[y \cup z] \in Nat
             /\ k[y \cup z] = h[y \cup z] * w
  <2>1. h[y \cup z] = f[y] * g[z]
    BY <1>2, <1>3, Zenon
  <2>2. f[y] * g[z] \in Nat
    BY Products
  <2>3. k[y \cup z] = f[y] * g[z] * w
    BY Zenon DEF AreElementProducts
  <2>4. QED
    BY <2>1, <2>2, <2>3
<1>5. AreProducts(h, f, g, Y, Z)
  BY ONLY <1>4 DEF AreProducts
<1>6. IsFiniteSet(A) /\ SumFunctionOnSet(h, A) = SumFunctionOnSet(f, Y) * SumFunctionOnSet(g, Z)
  BY <1>5, SumOfProductsOfUnions
<1>7. \A x \in A : h[x] \in Nat /\ k[x] = h[x] * w
  BY <1>4 DEF AreUnions
<1>8. SumFunctionOnSet(k, A) = SumFunctionOnSet(h, A) * w
  BY <1>6, <1>7, SumScaled
<1>9. QED
  BY ONLY <1>6, <1>8

\* The instantiations of the variables under a node that agree with evidence, and the values
\* the node has under them.
AgreeingUnder(g, n, e) == AgreeingOn(VariablesUnder(g, n), e)
ValuesUnder(g, t, f, weight, n, e) ==
  [x \in AgreeingUnder(g, n, e) |-> ValuesIn(g, t, f, weight, x)[n]]
IsSumUnder(g, t, f, weight, n, e, value) ==
  /\ IsFiniteSet(AgreeingUnder(g, n, e))
  /\ value = SumFunctionOnSet(ValuesUnder(g, t, f, weight, n, e), AgreeingUnder(g, n, e))

LEMMA SumOfLeaf ==
  ASSUME NEW g \in Structures, NEW t, NEW f, NEW weight, AreFactors(g, t, f, weight),
         NEW e, NEW n \in DOMAIN g, g[n].type # "decision"
  PROVE  IsSumUnder(g, t, f, weight, n, e, EvidenceLeaf(g, t, f, e)[n])
<1>1. PICK v, A, F : /\ v = g[n].variable /\ A = AgreeingUnder(g, n, e)
                     /\ F = ValuesUnder(g, t, f, weight, n, e)
  BY Zenon
<1>2. /\ v \notin e.variables => A = {{}} \cup {{v}}
      /\ v \in e.variables /\ v \in e.true => A = {{v}}
      /\ v \in e.variables /\ v \notin e.true => A = {{}}
  <2>1. A = AgreeingOn({v}, e)
    BY <1>1, VariablesOfNode DEF AgreeingUnder
  <2>2. QED
    BY <2>1, AgreeingOnOne
<1>3. t[n] \in Nat /\ f[n] \in Nat
  BY DEF AreFactors, AreNumbers
<1>4. \A x \in A : F[x] = IF v \in x THEN t[n] ELSE f[n]
  <2>1. ASSUME NEW x \in A PROVE F[x] = IF v \in x THEN t[n] ELSE f[n]
    <3>1. PICK a, leaf : a = ValuesIn(g, t, f, weight, x) /\ leaf = LeafIn(g, t, f, x)
      BY Zenon
    <3>2. AreValues(g, leaf, weight, a)
      BY <3>1, ValuesInFacts
    <3>3. a[n] = leaf[n]
      BY <3>2 DEF AreValues, ValueAt
    <3>4. leaf[n] = IF v \in x THEN t[n] ELSE f[n]
      BY <1>1, <3>1 DEF LeafIn
    <3>5. F[x] = a[n]
      BY <1>1, <3>1, Zenon DEF ValuesUnder
    <3>6. QED
      BY ONLY <3>3, <3>4, <3>5
  <2>2. QED
    BY ONLY <2>1
<1>5. EvidenceLeaf(g, t, f, e)[n] = IF v \notin e.variables THEN t[n] + f[n]
                                    ELSE IF v \in e.true THEN t[n] ELSE f[n]
  BY <1>1 DEF EvidenceLeaf
<1>6. /\ IsFiniteSet({{}}) /\ IsFiniteSet({{v}}) /\ {v} \notin {{}}
  BY FS_Singleton
<1>7. CASE v \notin e.variables
  <2>1. F[{}] = f[n] /\ F[{v}] = t[n]
    BY <1>2, <1>4, <1>7
  <2>2. SumFunctionOnSet(F, {{}}) = f[n]
    BY ONLY <1>3, <1>6, <2>1, SumOfOne
  <2>3. SumFunctionOnSet(F, {{}} \cup {{v}}) = SumFunctionOnSet(F, {{}}) + F[{v}]
    <3>1. \A i \in {{}} : F[i] \in Nat
      BY ONLY <1>3, <2>1
    <3>2. F[{v}] \in Nat
      BY <1>3, <2>1
    <3>3. QED
      BY ONLY <1>6, <3>1, <3>2, SumWith
  <2>4. IsFiniteSet({{}} \cup {{v}})
    BY ONLY <1>6, FS_Union
  <2>5. A = {{}} \cup {{v}}
    BY <1>2, <1>7
  <2>6. SumFunctionOnSet(F, A) = t[n] + f[n] /\ IsFiniteSet(A)
    <3>1. SumFunctionOnSet(F, A) = SumFunctionOnSet(F, {{}}) + F[{v}] /\ IsFiniteSet(A)
      BY ONLY <2>3, <2>4, <2>5, Zenon
    <3>2. QED
      BY ONLY <1>3, <2>1, <2>2, <3>1
  <2>7. QED
    BY <1>1, <1>5, <1>7, <2>6 DEF IsSumUnder
<1>8. CASE v \in e.variables
  <2>1. PICK x : /\ x = IF v \in e.true THEN {v} ELSE {}
    BY Zenon
  <2>2. A = {x} /\ (v \in x <=> v \in e.true)
    BY <1>2, <1>8, <2>1
  <2>3. F[x] = (IF v \in e.true THEN t[n] ELSE f[n]) /\ F[x] \in Nat
    BY <1>3, <1>4, <2>2
  <2>4. IsFiniteSet(A)
    BY <2>2, FS_Singleton
  <2>5. SumFunctionOnSet(F, A) = F[x]
    <3>1. x \in A /\ \A j \in A : j # x => F[j] = 0
      BY <2>2
    <3>2. QED
      BY ONLY <2>3, <2>4, <3>1, SumOfOne
  <2>6. QED
    BY <1>1, <1>5, <1>8, <2>3, <2>4, <2>5 DEF IsSumUnder
<1>9. QED
  BY <1>7, <1>8

\* The value of a node under evidence is the sum of its values under the instantiations of the
\* variables under it that agree.
LEMMA SumOfDecision ==
  ASSUME NEW g \in Structures, NEW t, NEW f, NEW weight, AreFactors(g, t, f, weight), NEW e,
         NEW E \in [DOMAIN g -> Nat], NEW n \in DOMAIN g, g[n].type = "decision",
         \A i \in DOMAIN g[n].primes :
           /\ IsSumUnder(g, t, f, weight, g[n].primes[i], e, E[g[n].primes[i]])
           /\ IsSumUnder(g, t, f, weight, g[n].subs[i], e, E[g[n].subs[i]])
  PROVE  IsSumUnder(g, t, f, weight, n, e, ValueAt(g, EvidenceLeaf(g, t, f, e), weight, E, n))
<1>1. PICK P, S : /\ VariablesUnder(g, n) = P \cup S /\ P \cap S = {}
                  /\ \A i \in DOMAIN g[n].primes : /\ VariablesUnder(g, g[n].primes[i]) = P
                                                   /\ VariablesUnder(g, g[n].subs[i]) = S
  BY VariablesOfNode
<1>2. PICK A, Y, Z, I, ps, ss, w :
        /\ A = AgreeingOn(P \cup S, e) /\ Y = AgreeingOn(P, e) /\ Z = AgreeingOn(S, e)
        /\ I = DOMAIN g[n].primes /\ ps = g[n].primes /\ ss = g[n].subs /\ w = weight[n]
  BY Zenon
<1>3. AreUnions(A, Y, Z)
  <2>1. AreUnions(AgreeingOn(P \cup S, e), AgreeingOn(P, e), AgreeingOn(S, e))
    <3>1. P \cap S = {}
      BY <1>1
    <3>2. QED
      BY ONLY <3>1, AgreeingOnBoth, Zenon
  <2>2. QED
    BY ONLY <1>2, <2>1, Zenon
<1>4. PICK val : val = [x \in A \cup Y \cup Z |-> ValuesIn(g, t, f, weight, x)]
  BY Zenon
<1>5. \A x \in A \cup Y \cup Z : /\ val[x] = ValuesIn(g, t, f, weight, x)
                                 /\ val[x] \in [DOMAIN g -> Nat]
  BY <1>4, ValuesInFacts
<1>6. \A i \in I : /\ ps[i] \in DOMAIN g /\ ss[i] \in DOMAIN g /\ w[i] \in Nat
                   /\ VariablesUnder(g, ps[i]) = P /\ VariablesUnder(g, ss[i]) = S
  BY <1>1, <1>2, GraphFacts DEF AreFactors, AreNumbers
<1>7. \A i \in I : /\ IsFiniteSet(Y) /\ IsFiniteSet(Z)
                   /\ E[ps[i]] = SumFunctionOnSet([y \in Y |-> val[y][ps[i]]], Y)
                   /\ E[ss[i]] = SumFunctionOnSet([z \in Z |-> val[z][ss[i]]], Z)
  <2>1. ASSUME NEW i \in I
        PROVE  /\ IsFiniteSet(Y) /\ IsFiniteSet(Z)
               /\ E[ps[i]] = SumFunctionOnSet([y \in Y |-> val[y][ps[i]]], Y)
               /\ E[ss[i]] = SumFunctionOnSet([z \in Z |-> val[z][ss[i]]], Z)
    <3>1. AgreeingUnder(g, ps[i], e) = Y /\ AgreeingUnder(g, ss[i], e) = Z
      BY <1>2, <1>6 DEF AgreeingUnder
    <3>2. ValuesUnder(g, t, f, weight, ps[i], e) = [y \in Y |-> val[y][ps[i]]]
      <4>1. [y \in Y |-> ValuesIn(g, t, f, weight, y)[ps[i]]] = [y \in Y |-> val[y][ps[i]]]
        BY <1>5, Zenon
      <4>2. QED
        BY <3>1, <4>1, Zenon DEF ValuesUnder
    <3>3. ValuesUnder(g, t, f, weight, ss[i], e) = [z \in Z |-> val[z][ss[i]]]
      <4>1. [z \in Z |-> ValuesIn(g, t, f, weight, z)[ss[i]]] = [z \in Z |-> val[z][ss[i]]]
        BY <1>5, Zenon
      <4>2. QED
        BY <3>1, <4>1, Zenon DEF ValuesUnder
    <3>4. /\ IsSumUnder(g, t, f, weight, ps[i], e, E[ps[i]])
          /\ IsSumUnder(g, t, f, weight, ss[i], e, E[ss[i]])
      BY <1>2
    <3>5. QED
      BY <3>1, <3>2, <3>3, <3>4, Zenon DEF IsSumUnder
  <2>2. QED
    BY ONLY <2>1
<1>8. \A y \in Y, z \in Z : \A i \in I : /\ val[y \cup z][ps[i]] = val[y][ps[i]]
                                         /\ val[y \cup z][ss[i]] = val[z][ss[i]]
  <2>1. ASSUME NEW y \in Y, NEW z \in Z, NEW i \in I
        PROVE  val[y \cup z][ps[i]] = val[y][ps[i]] /\ val[y \cup z][ss[i]] = val[z][ss[i]]
    <3>1. PICK x : x = y \cup z
      BY Zenon
    <3>2. x \in A
      BY <1>3, <3>1 DEF AreUnions
    <3>3. (\A v \in P : v \in x <=> v \in y) /\ (\A v \in S : v \in x <=> v \in z)
      BY <1>1, <1>2, <3>1, AgreeingOnBoth
    <3>4. PICK p, c : p = ps[i] /\ c = ss[i]
      BY Zenon
    <3>5. /\ p \in DOMAIN g /\ AreSameUnder(g, p, x, y)
          /\ c \in DOMAIN g /\ AreSameUnder(g, c, x, z)
      BY ONLY <1>6, <3>3, <3>4, i \in I DEF AreSameUnder
    <3>6. /\ ValuesIn(g, t, f, weight, x)[p] = ValuesIn(g, t, f, weight, y)[p]
          /\ ValuesIn(g, t, f, weight, x)[c] = ValuesIn(g, t, f, weight, z)[c]
      <4>1. g \in Structures /\ AreFactors(g, t, f, weight)
        OBVIOUS
      <4>2. QED
        BY ONLY <3>5, <4>1, ValuesAreLocal
    <3>7. QED
      BY <1>5, <3>1, <3>2, <3>4, <3>6
  <2>2. QED
    BY ONLY <2>1
<1>9. PICK F, H : /\ F = [x \in A |-> [i \in I |-> val[x][ps[i]] * val[x][ss[i]] * w[i]]]
                 /\ H = [i \in I |-> [x \in A |-> F[x][i]]]
  BY Zenon
<1>10. PICK columns : columns = [i \in I |-> E[ps[i]] * E[ss[i]] * w[i]]
  BY Zenon
<1>11. ASSUME NEW i \in I
       PROVE  IsFiniteSet(A) /\ columns[i] = SumFunctionOnSet(H[i], A)
  <2>1. PICK p, s, c : p = ps[i] /\ s = ss[i] /\ c = w[i]
    BY Zenon
  <2>2. /\ p \in DOMAIN g /\ s \in DOMAIN g /\ c \in Nat
        /\ IsFiniteSet(Y) /\ IsFiniteSet(Z)
        /\ E[p] = SumFunctionOnSet([y \in Y |-> val[y][p]], Y)
        /\ E[s] = SumFunctionOnSet([z \in Z |-> val[z][s]], Z)
        /\ \A y \in Y, z \in Z : val[y \cup z][p] = val[y][p] /\ val[y \cup z][s] = val[z][s]
    BY ONLY <1>6, <1>7, <1>8, <2>1, i \in I
  <2>3. PICK a, b, k : /\ a = [y \in Y |-> val[y][p]] /\ b = [z \in Z |-> val[z][s]]
                       /\ k = [x \in A |-> F[x][i]]
    BY Zenon
  <2>4. (\A y \in Y : a[y] \in Nat) /\ (\A z \in Z : b[z] \in Nat)
    BY <1>5, <2>2, <2>3
  <2>5. AreElementProducts(k, a, b, c, Y, Z)
    <3>1. ASSUME NEW y \in Y, NEW z \in Z PROVE k[y \cup z] = a[y] * b[z] * c
      <4>1. y \cup z \in A
        BY <1>3 DEF AreUnions
      <4>2. k[y \cup z] = val[y \cup z][p] * val[y \cup z][s] * c
        BY ONLY <1>9, <2>1, <2>3, <4>1, i \in I, Zenon
      <4>3. val[y \cup z][p] = a[y] /\ val[y \cup z][s] = b[z]
        BY ONLY <2>2, <2>3, y \in Y, z \in Z
      <4>4. QED
        BY ONLY <4>2, <4>3, Zenon
    <3>2. QED
      BY ONLY <3>1, Zenon DEF AreElementProducts
  <2>6. /\ IsFiniteSet(A)
        /\ SumFunctionOnSet(k, A) = SumFunctionOnSet(a, Y) * SumFunctionOnSet(b, Z) * c
    BY <1>3, <2>2, <2>4, <2>5, SumOfElement
  <2>7. columns[i] = E[p] * E[s] * c
    BY ONLY <1>10, <2>1, i \in I, Zenon
  <2>8. SumFunctionOnSet(a, Y) = E[p] /\ SumFunctionOnSet(b, Z) = E[s]
    BY <2>2, <2>3, Zenon
  <2>9. H[i] = k
    BY <1>9, <2>3, Zenon
  <2>10. QED
    BY ONLY <2>6, <2>7, <2>8, <2>9, Zenon
<1>12. IsFiniteSet(I) /\ \E i : i \in I
  <2>1. ps \in Seq(Nat) /\ ps # <<>>
    BY <1>2, NodeQueriesAssumption, PsddGraphAssumption DEF IsNormalised, IsConformed, PsddNode
  <2>2. QED
    BY <1>2, <2>1, ElementsAreFinite
<1>13. IsFiniteSet(A)
  BY ONLY <1>11, <1>12
<1>14. AreTransposed(F, H, A, I)
  <2>1. ASSUME NEW x \in A, NEW i \in I PROVE F[x][i] \in Nat /\ H[i][x] = F[x][i]
    <3>1. val[x][ps[i]] \in Nat /\ val[x][ss[i]] \in Nat /\ w[i] \in Nat
      BY <1>5, <1>6
    <3>2. F[x][i] = val[x][ps[i]] * val[x][ss[i]] * w[i]
      BY <1>9, Zenon
    <3>3. H[i][x] = F[x][i]
      BY <1>9, Zenon
    <3>4. QED
      BY <3>1, <3>2, <3>3, ProductOfThree
  <2>2. QED
    BY ONLY <2>1 DEF AreTransposed
<1>15. PICK rows : rows = [x \in A |-> val[x][n]]
  BY Zenon
<1>16. AreSumsOver(rows, F, A, I)
  <2>1. ASSUME NEW x \in A PROVE rows[x] = SumFunctionOnSet(F[x], I)
    <3>1. PICK v, leaf : v = val[x] /\ leaf = LeafIn(g, t, f, x)
      BY Zenon
    <3>2. AreValues(g, leaf, weight, v)
      BY <1>5, <3>1, ValuesInFacts
    <3>3. v[n] = ValueAt(g, leaf, weight, v, n)
      BY <3>2 DEF AreValues
    <3>4. F[x] = [i \in DOMAIN g[n].primes |-> v[g[n].primes[i]] * v[g[n].subs[i]] * weight[n][i]]
      BY <1>2, <1>9, <3>1, Zenon
    <3>5. ValueAt(g, leaf, weight, v, n) = SumFunction(F[x])
      BY <3>4, Zenon DEF ValueAt
    <3>6. DOMAIN F[x] = I
      BY <1>9, Zenon
    <3>7. QED
      BY <1>15, <3>1, <3>3, <3>5, <3>6, Zenon DEF SumFunction
  <2>2. QED
    BY ONLY <2>1 DEF AreSumsOver
<1>17. SumFunctionOnSet(rows, A) = SumFunctionOnSet(columns, I)
  <2>1. AreSumsOver(columns, H, I, A)
    BY ONLY <1>11 DEF AreSumsOver
  <2>2. QED
    BY ONLY <1>12, <1>13, <1>14, <1>16, <2>1, SumsExchange
<1>18. ValueAt(g, EvidenceLeaf(g, t, f, e), weight, E, n) = SumFunctionOnSet(columns, I)
  <2>1. columns = [i \in DOMAIN g[n].primes |-> E[g[n].primes[i]] * E[g[n].subs[i]] * weight[n][i]]
    BY <1>2, <1>10, Zenon
  <2>2. ValueAt(g, EvidenceLeaf(g, t, f, e), weight, E, n) = SumFunction(columns)
    BY <2>1, Zenon DEF ValueAt
  <2>3. DOMAIN columns = I
    BY <1>10, Zenon
  <2>4. QED
    BY <2>2, <2>3, Zenon DEF SumFunction
<1>19. AgreeingUnder(g, n, e) = A /\ ValuesUnder(g, t, f, weight, n, e) = rows
  <2>1. AgreeingUnder(g, n, e) = A
    BY <1>1, <1>2 DEF AgreeingUnder
  <2>2. rows = [x \in A |-> ValuesIn(g, t, f, weight, x)[n]]
    <3>1. [x \in A |-> val[x][n]] = [x \in A |-> ValuesIn(g, t, f, weight, x)[n]]
      BY <1>5, Zenon
    <3>2. QED
      BY <1>15, <3>1, Zenon
  <2>3. QED
    BY <2>1, <2>2, Zenon DEF ValuesUnder
<1>20. QED
  BY <1>13, <1>17, <1>18, <1>19, Zenon DEF IsSumUnder

LEMMA SumOverInstantiations ==
  ASSUME NEW g \in Structures, NEW t, NEW f, NEW weight, AreFactors(g, t, f, weight), NEW e,
         NEW E \in [DOMAIN g -> Nat], AreValues(g, EvidenceLeaf(g, t, f, e), weight, E)
  PROVE  \A n \in DOMAIN g : IsSumUnder(g, t, f, weight, n, e, E[n])
<1> DEFINE T == {n \in DOMAIN g : ~ IsSumUnder(g, t, f, weight, n, e, E[n])}
<1>1. SUFFICES ASSUME T # {} PROVE FALSE
  OBVIOUS
<1>2. T \in SUBSET Nat
  BY GraphFacts
<1>3. PICK n \in T : \A c \in T : n <= c
  <2> HIDE DEF T
  <2>1. QED
    BY <1>1, <1>2, LeastOf
<1>4. n \in DOMAIN g /\ ~ IsSumUnder(g, t, f, weight, n, e, E[n])
  OBVIOUS
<1>5. ASSUME NEW c \in DOMAIN g, c < n PROVE IsSumUnder(g, t, f, weight, c, e, E[c])
  <2>1. c \in Nat /\ n \in Nat /\ ~ n <= c
    BY <1>4, <1>5, GraphFacts
  <2>2. c \notin T
    <3> HIDE DEF T
    <3>1. QED
      BY <1>3, <2>1
  <2>3. QED
    BY <2>2
<1>6. E[n] = ValueAt(g, EvidenceLeaf(g, t, f, e), weight, E, n)
  BY <1>4 DEF AreValues
<1>7. CASE g[n].type # "decision"
  <2>1. E[n] = EvidenceLeaf(g, t, f, e)[n]
    BY <1>6, <1>7 DEF ValueAt
  <2>2. QED
    BY <1>4, <1>7, <2>1, SumOfLeaf
<1>8. CASE g[n].type = "decision"
  <2>1. \A i \in DOMAIN g[n].primes :
          /\ g[n].primes[i] \in DOMAIN g /\ g[n].primes[i] < n
          /\ g[n].subs[i] \in DOMAIN g /\ g[n].subs[i] < n
    BY <1>4, GraphFacts
  <2>2. \A i \in DOMAIN g[n].primes :
          /\ IsSumUnder(g, t, f, weight, g[n].primes[i], e, E[g[n].primes[i]])
          /\ IsSumUnder(g, t, f, weight, g[n].subs[i], e, E[g[n].subs[i]])
    BY ONLY <1>5, <2>1
  <2>3. IsSumUnder(g, t, f, weight, n, e, ValueAt(g, EvidenceLeaf(g, t, f, e), weight, E, n))
    BY <1>4, <1>8, <2>2, SumOfDecision
  <2>4. QED
    BY <1>4, <1>6, <2>3
<1>9. QED
  BY <1>7, <1>8

-----------------------------------------------------------------------------
(***************************************************************************)
(* Probabilities and counts are such values.                               *)
(***************************************************************************)
LEMMA ParameterFacts ==
  ASSUME NEW g \in Structures, NEW n \in DOMAIN g
  PROVE  /\ g[n].parameters \in Seq(Nat) /\ One \in Nat \ {0}
         /\ g[n].type = "top" => /\ g[n].parameters[1] \in Nat /\ g[n].parameters[2] \in Nat
                                 /\ g[n].parameters[1] + g[n].parameters[2] = One
         /\ g[n].type = "decision" => /\ DOMAIN g[n].parameters = DOMAIN g[n].primes
                                      /\ \A i \in DOMAIN g[n].primes : g[n].parameters[i] \in Nat
<1>1. /\ g[n].parameters \in Seq(Nat) /\ g[n].primes \in Seq(Nat) /\ One \in Nat \ {0}
      /\ g[n].type = "top" => Len(g[n].parameters) = 2
      /\ g[n].type = "decision" => Len(g[n].parameters) = Len(g[n].primes)
      /\ g[n].type # "literal" => SumFunction(g[n].parameters) = One
  BY PsddGraphAssumption, NodeQueriesAssumption DEF IsConformed, PsddNode, IsNormalised
<1>2. PICK p, q : p = g[n].parameters /\ q = g[n].primes
  BY Zenon
<1>3. p \in Seq(Nat) /\ q \in Seq(Nat)
  BY <1>1, <1>2
<1>4. ASSUME g[n].type = "top"
      PROVE  p[1] \in Nat /\ p[2] \in Nat /\ p[1] + p[2] = One
  <2>1. Len(p) = 2 /\ SumFunction(p) = One
    BY <1>1, <1>2, <1>4
  <2>2. DOMAIN p = 1..2 /\ p[1] \in Nat /\ p[2] \in Nat
    <3>1. DOMAIN p = 1..Len(p) /\ \A i \in DOMAIN p : p[i] \in Nat
      BY ONLY <1>3
    <3>2. QED
      BY ONLY <2>1, <3>1
  <2>3. SumFunction(p) = SumFunctionOnSet(p, DOMAIN p)
    BY Zenon DEF SumFunction
  <2>4. DOMAIN p = {1} \cup {2}
    BY <2>2
  <2>5. IsFiniteSet({1}) /\ 2 \notin {1} /\ 1 \in {1}
    <3>1. IsFiniteSet({1})
      BY FS_Singleton, Zenon
    <3>2. QED
      BY ONLY <3>1
  <2>6. SumFunctionOnSet(p, {1}) = p[1]
    <3>1. \A j \in {1} : j # 1 => p[j] = 0
      OBVIOUS
    <3>2. QED
      BY ONLY <2>2, <2>5, <3>1, SumOfOne
  <2>7. SumFunctionOnSet(p, {1} \cup {2}) = SumFunctionOnSet(p, {1}) + p[2]
    <3>1. \A j \in {1} : p[j] \in Nat
      BY <2>2
    <3>2. QED
      BY ONLY <2>2, <2>5, <3>1, SumWith
  <2>8. SumFunctionOnSet(p, DOMAIN p) = SumFunctionOnSet(p, {1} \cup {2})
    BY ONLY <2>4, Zenon
  <2>9. QED
    BY ONLY <2>1, <2>2, <2>3, <2>6, <2>7, <2>8
<1>5. ASSUME g[n].type = "decision"
      PROVE  DOMAIN p = DOMAIN q /\ \A i \in DOMAIN q : p[i] \in Nat
  <2>1. Len(p) = Len(q)
    BY <1>1, <1>2, <1>5
  <2>2. QED
    BY ONLY <1>3, <2>1
<1>6. QED
  BY <1>1, <1>2, <1>4, <1>5

TrueOf(g) == [n \in DOMAIN g |-> CASE g[n].type = "literal" -> IF g[n].sign THEN One ELSE 0
                                   [] g[n].type = "top" -> g[n].parameters[1]
                                   [] OTHER -> 0]
FalseOf(g) == [n \in DOMAIN g |-> CASE g[n].type = "literal" -> IF g[n].sign THEN 0 ELSE One
                                    [] g[n].type = "top" -> g[n].parameters[2]
                                    [] OTHER -> 0]
ParametersOf(g) == [n \in DOMAIN g |-> g[n].parameters]

\* For counting, a parameter is 1.
CountTrue(g) == [n \in DOMAIN g |-> IF g[n].type = "literal" /\ ~g[n].sign THEN 0 ELSE 1]
CountFalse(g) == [n \in DOMAIN g |-> IF g[n].type = "literal" /\ g[n].sign THEN 0 ELSE 1]
CountWeights(g) == [n \in DOMAIN g |-> [i \in DOMAIN g[n].primes |-> 1]]

LEMMA FactorsAreNumbers ==
  ASSUME NEW g \in Structures
  PROVE  /\ AreFactors(g, TrueOf(g), FalseOf(g), ParametersOf(g))
         /\ AreFactors(g, CountTrue(g), CountFalse(g), CountWeights(g))
<1>1. ASSUME NEW n \in DOMAIN g
      PROVE  /\ TrueOf(g)[n] \in Nat /\ FalseOf(g)[n] \in Nat
             /\ \A i \in DOMAIN g[n].primes : ParametersOf(g)[n][i] \in Nat
             /\ CountTrue(g)[n] \in Nat /\ CountFalse(g)[n] \in Nat
             /\ \A i \in DOMAIN g[n].primes : CountWeights(g)[n][i] \in Nat
  <2>1. TrueOf(g)[n] \in Nat /\ FalseOf(g)[n] \in Nat
    BY ParameterFacts DEF TrueOf, FalseOf
  <2>2. \A i \in DOMAIN g[n].primes : ParametersOf(g)[n][i] \in Nat
    BY ParameterFacts, GraphFacts DEF ParametersOf
  <2>3. CountTrue(g)[n] \in Nat /\ CountFalse(g)[n] \in Nat
    BY DEF CountTrue, CountFalse
  <2>4. \A i \in DOMAIN g[n].primes : CountWeights(g)[n][i] \in Nat
    BY DEF CountWeights
  <2>5. QED
    BY <2>1, <2>2, <2>3, <2>4
<1>2. QED
  BY ONLY <1>1, Zenon DEF AreFactors, AreNumbers

\* The values under evidence.
SolutionIn(g, leaf, weight) == CHOOSE v \in [DOMAIN g -> Nat] : AreValues(g, leaf, weight, v)
Probabilities(g, e) == SolutionIn(g, EvidenceLeaf(g, TrueOf(g), FalseOf(g), e), ParametersOf(g))
Counts(g, e) == SolutionIn(g, EvidenceLeaf(g, CountTrue(g), CountFalse(g), e), CountWeights(g))

LEMMA SolutionInFacts ==
  ASSUME NEW g \in Structures, NEW t, NEW f, NEW weight, AreFactors(g, t, f, weight), NEW e
  PROVE  LET leaf == EvidenceLeaf(g, t, f, e) IN
         /\ SolutionIn(g, leaf, weight) \in [DOMAIN g -> Nat]
         /\ AreValues(g, leaf, weight, SolutionIn(g, leaf, weight))
<1>1. PICK leaf : leaf = EvidenceLeaf(g, t, f, e)
  BY Zenon
<1>2. AreNumbers(g, leaf, weight)
  BY <1>1 DEF EvidenceLeaf, AreFactors, AreNumbers
<1>3. \E v \in [DOMAIN g -> Nat] : AreValues(g, leaf, weight, v)
  BY <1>2, ValuesExist
<1>4. QED
  BY <1>1, <1>3, Zenon DEF SolutionIn

LEMMA ProbabilitiesFacts ==
  ASSUME NEW g \in Structures, NEW e
  PROVE  /\ Probabilities(g, e) \in [DOMAIN g -> Nat]
         /\ AreValues(g, EvidenceLeaf(g, TrueOf(g), FalseOf(g), e), ParametersOf(g), Probabilities(g, e))
<1>1. PICK t, f, weight : t = TrueOf(g) /\ f = FalseOf(g) /\ weight = ParametersOf(g)
  BY Zenon
<1>2. AreFactors(g, t, f, weight)
  BY <1>1, FactorsAreNumbers
<1>3. /\ SolutionIn(g, EvidenceLeaf(g, t, f, e), weight) \in [DOMAIN g -> Nat]
      /\ AreValues(g, EvidenceLeaf(g, t, f, e), weight, SolutionIn(g, EvidenceLeaf(g, t, f, e), weight))
  BY <1>2, SolutionInFacts
<1>4. QED
  BY <1>1, <1>3, Zenon DEF Probabilities

LEMMA CountsFacts ==
  ASSUME NEW g \in Structures, NEW e
  PROVE  /\ Counts(g, e) \in [DOMAIN g -> Nat]
         /\ AreValues(g, EvidenceLeaf(g, CountTrue(g), CountFalse(g), e), CountWeights(g), Counts(g, e))
<1>1. PICK t, f, weight : t = CountTrue(g) /\ f = CountFalse(g) /\ weight = CountWeights(g)
  BY Zenon
<1>2. AreFactors(g, t, f, weight)
  BY <1>1, FactorsAreNumbers
<1>3. /\ SolutionIn(g, EvidenceLeaf(g, t, f, e), weight) \in [DOMAIN g -> Nat]
      /\ AreValues(g, EvidenceLeaf(g, t, f, e), weight, SolutionIn(g, EvidenceLeaf(g, t, f, e), weight))
  BY <1>2, SolutionInFacts
<1>4. QED
  BY <1>1, <1>3, Zenon DEF Counts

\* What Evaluate and ModelCount put into the map for a node, when they have put in the values
\* of its children.
LEMMA ProbabilityIsOfChildren ==
  ASSUME structure \in Structures, NEW n \in Nodes,
         \A c \in ChildrenIn(structure, n) : cache[c] = Probabilities(structure, evidence)[c]
  PROVE  ProbabilityOf(n) = Probabilities(structure, evidence)[n]
<1>1. PICK g, e, leaf, v :
        /\ g = structure /\ e = evidence /\ v = Probabilities(g, e)
        /\ leaf = EvidenceLeaf(g, TrueOf(g), FalseOf(g), e)
  BY Zenon
<1>2. g \in Structures /\ n \in DOMAIN g
  BY <1>1 DEF Nodes
<1>3. v[n] = ValueAt(g, leaf, ParametersOf(g), v, n)
  BY <1>1, <1>2, ProbabilitiesFacts DEF AreValues
<1>4. CASE g[n].type = "decision"
  <2>1. \A i \in DOMAIN g[n].primes : /\ cache[g[n].primes[i]] = v[g[n].primes[i]]
                                      /\ cache[g[n].subs[i]] = v[g[n].subs[i]]
    BY <1>1, <1>2, GraphFacts
  <2>2. [i \in DOMAIN g[n].primes |-> cache[g[n].primes[i]] * cache[g[n].subs[i]] * g[n].parameters[i]] =
        [i \in DOMAIN g[n].primes |-> v[g[n].primes[i]] * v[g[n].subs[i]] * ParametersOf(g)[n][i]]
    <3>1. ParametersOf(g)[n] = g[n].parameters
      BY <1>2 DEF ParametersOf
    <3>2. QED
      BY <2>1, <3>1, Zenon
  <2>3. SumOfProducts(n, cache, Parameters(n)) = v[n]
    BY <1>1, <1>3, <1>4, <2>2, Zenon DEF SumOfProducts, Elements, Primes, Subs, Parameters, ValueAt
  <2>4. ProbabilityOf(n) = SumOfProducts(n, cache, Parameters(n))
    BY <1>1, <1>4 DEF ProbabilityOf, TypeOf
  <2>5. QED
    BY <1>1, <2>3, <2>4
<1>5. CASE g[n].type # "decision"
  <2>1. v[n] = leaf[n]
    BY <1>3, <1>5 DEF ValueAt
  <2>2. leaf[n] = IF g[n].variable \notin e.variables THEN TrueOf(g)[n] + FalseOf(g)[n]
                  ELSE IF g[n].variable \in e.true THEN TrueOf(g)[n] ELSE FalseOf(g)[n]
    BY <1>1, <1>2 DEF EvidenceLeaf
  <2>3. CASE g[n].type = "literal"
    <3>1. /\ TrueOf(g)[n] = IF g[n].sign THEN One ELSE 0
          /\ FalseOf(g)[n] = IF g[n].sign THEN 0 ELSE One
          /\ One \in Nat /\ g[n].sign \in BOOLEAN
      BY <1>2, <2>3, ParameterFacts, GraphFacts DEF TrueOf, FalseOf
    <3>2. ProbabilityOf(n) = IF g[n].variable \in e.variables /\ ~(g[n].sign = (g[n].variable \in e.true))
                             THEN 0 ELSE One
      BY <1>1, <2>3, Zenon DEF ProbabilityOf, TypeOf, IsObserved, Agrees, Variable
    <3>3. QED
      BY <1>1, <2>1, <2>2, <3>1, <3>2
  <2>4. CASE g[n].type = "top"
    <3>1. /\ TrueOf(g)[n] = g[n].parameters[1] /\ FalseOf(g)[n] = g[n].parameters[2]
          /\ g[n].parameters[1] + g[n].parameters[2] = One
      BY <1>2, <2>4, ParameterFacts DEF TrueOf, FalseOf
    <3>2. ProbabilityOf(n) = IF g[n].variable \notin e.variables THEN One
                             ELSE IF g[n].variable \in e.true THEN g[n].parameters[1]
                                                              ELSE g[n].parameters[2]
      BY <1>1, <2>4 DEF ProbabilityOf, TypeOf, IsObserved, Variable, TrueParameter,
                        FalseParameter, Parameters
    <3>3. QED
      BY <1>1, <2>1, <2>2, <3>1, <3>2
  <2>5. QED
    BY <1>2, <1>5, <2>3, <2>4, GraphFacts
<1>6. QED
  BY <1>4, <1>5

LEMMA CountIsOfChildren ==
  ASSUME structure \in Structures, NEW n \in Nodes,
         \A c \in ChildrenIn(structure, n) : cache[c] = Counts(structure, NoEvidence)[c]
  PROVE  CountOf(n) = Counts(structure, NoEvidence)[n]
<1>1. PICK g, leaf, v :
        /\ g = structure /\ v = Counts(g, NoEvidence)
        /\ leaf = EvidenceLeaf(g, CountTrue(g), CountFalse(g), NoEvidence)
  BY Zenon
<1>2. g \in Structures /\ n \in DOMAIN g
  BY <1>1 DEF Nodes
<1>3. v[n] = ValueAt(g, leaf, CountWeights(g), v, n)
  BY <1>1, <1>2, CountsFacts DEF AreValues
<1>4. CASE g[n].type = "decision"
  <2>1. \A i \in DOMAIN g[n].primes : /\ cache[g[n].primes[i]] = v[g[n].primes[i]]
                                      /\ cache[g[n].subs[i]] = v[g[n].subs[i]]
    BY <1>1, <1>2, GraphFacts
  <2>2. PICK w : w = [i \in DOMAIN g[n].primes |-> 1]
    BY Zenon
  <2>3. CountWeights(g)[n] = w
    BY <1>2, <2>2 DEF CountWeights
  <2>4. [i \in DOMAIN g[n].primes |-> cache[g[n].primes[i]] * cache[g[n].subs[i]] * w[i]] =
        [i \in DOMAIN g[n].primes |-> v[g[n].primes[i]] * v[g[n].subs[i]] * CountWeights(g)[n][i]]
    BY <2>1, <2>3, Zenon
  <2>5. SumOfProducts(n, cache, w) = v[n]
    BY <1>1, <1>3, <1>4, <2>4, Zenon DEF SumOfProducts, Elements, Primes, Subs, ValueAt
  <2>6. CountOf(n) = SumOfProducts(n, cache, w)
    <3>1. CountOf(n) = SumOfProducts(n, cache, [i \in Elements(n) |-> 1])
      BY <1>1, <1>4 DEF CountOf, TypeOf
    <3>2. [i \in Elements(n) |-> 1] = w
      BY <1>1, <2>2 DEF Elements, Primes
    <3>3. QED
      BY <3>1, <3>2
  <2>7. QED
    BY <1>1, <2>5, <2>6
<1>5. CASE g[n].type # "decision"
  <2>1. v[n] = leaf[n]
    BY <1>3, <1>5 DEF ValueAt
  <2>2. leaf[n] = CountTrue(g)[n] + CountFalse(g)[n]
    BY <1>1, <1>2 DEF EvidenceLeaf, NoEvidence
  <2>3. CountOf(n) = IF g[n].type = "literal" THEN 1 ELSE 2
    BY <1>1, <1>2, <1>5, GraphFacts DEF CountOf, TypeOf
  <2>4. QED
    BY <1>1, <1>2, <1>5, <2>1, <2>2, <2>3, GraphFacts DEF CountTrue, CountFalse
<1>6. QED
  BY <1>4, <1>5

-----------------------------------------------------------------------------
(***************************************************************************)
(* Where nothing is weighed, a value is positive if there is a way to make *)
(* it so: that is what being a model, and being consistent, means.         *)
(***************************************************************************)
LEMMA PositiveIsOfElements ==
  ASSUME NEW g \in Structures, NEW n \in DOMAIN g, g[n].type = "decision", NEW leaf,
         NEW v \in [DOMAIN g -> Nat]
  PROVE  /\ ValueAt(g, leaf, CountWeights(g), v, n) \in Nat
         /\ ValueAt(g, leaf, CountWeights(g), v, n) > 0 <=>
              \E i \in DOMAIN g[n].primes : v[g[n].primes[i]] > 0 /\ v[g[n].subs[i]] > 0
<1>1. PICK I, f : /\ I = DOMAIN g[n].primes
                  /\ f = [i \in I |-> v[g[n].primes[i]] * v[g[n].subs[i]] * CountWeights(g)[n][i]]
  BY Zenon
<1>2. ValueAt(g, leaf, CountWeights(g), v, n) = SumFunctionOnSet(f, I)
  <2>1. ValueAt(g, leaf, CountWeights(g), v, n) = SumFunction(f)
    BY <1>1, Zenon DEF ValueAt
  <2>2. DOMAIN f = I
    BY <1>1, Zenon
  <2>3. QED
    BY <2>1, <2>2, Zenon DEF SumFunction
<1>3. ASSUME NEW i \in I
      PROVE  f[i] \in Nat /\ (f[i] > 0 <=> v[g[n].primes[i]] > 0 /\ v[g[n].subs[i]] > 0)
  <2>1. PICK a, b, c : a = v[g[n].primes[i]] /\ b = v[g[n].subs[i]] /\ c = CountWeights(g)[n][i]
    BY Zenon
  <2>2. a \in Nat /\ b \in Nat
    BY <1>1, <2>1, GraphFacts
  <2>3. c = 1
    BY <1>1, <2>1 DEF CountWeights
  <2>4. f[i] = a * b * c
    BY <1>1, <2>1, Zenon
  <2>5. a * b \in Nat /\ (a * b > 0 <=> a > 0 /\ b > 0)
    BY ONLY <2>2, Products
  <2>6. f[i] = a * b
    BY ONLY <2>3, <2>4, <2>5
  <2>7. QED
    BY ONLY <2>1, <2>5, <2>6
<1>4. IsFiniteSet(I)
  BY <1>1, ElementsAreFinite
<1>5. \A i \in I : f[i] \in Nat
  BY ONLY <1>3
<1>6. SumFunctionOnSet(f, I) \in Nat /\ (SumFunctionOnSet(f, I) > 0 <=> \E i \in I : f[i] > 0)
  BY ONLY <1>4, <1>5, SumIsNat, SumIsPositive
<1>7. QED
  BY ONLY <1>1, <1>2, <1>3, <1>6

\* Truth values that follow the same rule.
ArePossible(g, leaf, c) ==
  \A n \in DOMAIN g :
    c[n] <=> \/ g[n].type # "decision" /\ leaf[n] > 0
             \/ \E i \in DOMAIN g[n].primes : c[g[n].primes[i]] /\ c[g[n].subs[i]]

LEMMA PositiveIsPossible ==
  ASSUME NEW g \in Structures, NEW leaf, NEW v \in [DOMAIN g -> Nat], NEW c,
         AreValues(g, leaf, CountWeights(g), v), ArePossible(g, leaf, c)
  PROVE  \A n \in DOMAIN g : v[n] > 0 <=> c[n]
<1> DEFINE T == {n \in DOMAIN g : ~(v[n] > 0 <=> c[n])}
<1>1. SUFFICES ASSUME T # {} PROVE FALSE
  OBVIOUS
<1>2. T \in SUBSET Nat
  BY GraphFacts
<1>3. PICK n \in T : \A m \in T : n <= m
  <2> HIDE DEF T
  <2>1. QED
    BY <1>1, <1>2, LeastOf
<1>4. n \in DOMAIN g /\ ~(v[n] > 0 <=> c[n])
  OBVIOUS
<1>5. ASSUME NEW m \in DOMAIN g, m < n PROVE v[m] > 0 <=> c[m]
  <2>1. m \in Nat /\ n \in Nat /\ ~ n <= m
    BY <1>4, <1>5, GraphFacts
  <2>2. m \notin T
    <3> HIDE DEF T
    <3>1. QED
      BY <1>3, <2>1
  <2>3. QED
    BY <2>2
<1>6. v[n] = ValueAt(g, leaf, CountWeights(g), v, n)
  BY <1>4 DEF AreValues
<1>7. c[n] <=> \/ g[n].type # "decision" /\ leaf[n] > 0
               \/ \E i \in DOMAIN g[n].primes : c[g[n].primes[i]] /\ c[g[n].subs[i]]
  BY <1>4 DEF ArePossible
<1>8. CASE g[n].type # "decision"
  <2>1. v[n] = leaf[n]
    BY <1>6, <1>8 DEF ValueAt
  <2>2. DOMAIN g[n].primes = {}
    BY <1>4, <1>8, GraphFacts
  <2>3. QED
    BY ONLY <1>4, <1>7, <1>8, <2>1, <2>2
<1>9. CASE g[n].type = "decision"
  <2>1. v[n] > 0 <=> \E i \in DOMAIN g[n].primes : v[g[n].primes[i]] > 0 /\ v[g[n].subs[i]] > 0
    BY <1>4, <1>6, <1>9, PositiveIsOfElements
  <2>2. \A i \in DOMAIN g[n].primes : /\ v[g[n].primes[i]] > 0 <=> c[g[n].primes[i]]
                                      /\ v[g[n].subs[i]] > 0 <=> c[g[n].subs[i]]
    BY <1>4, <1>5, GraphFacts
  <2>3. QED
    BY ONLY <1>4, <1>7, <1>9, <2>1, <2>2
<1>10. QED
  BY <1>8, <1>9

\* What a leaf may be under evidence, and under an instantiation.
LEMMA CountLeaves ==
  ASSUME NEW g \in Structures, NEW n \in DOMAIN g, g[n].type # "decision"
  PROVE  /\ \A e : EvidenceLeaf(g, CountTrue(g), CountFalse(g), e)[n] > 0 <=>
                     \/ /\ g[n].type = "literal"
                        /\ g[n].variable \in e.variables => g[n].sign = (g[n].variable \in e.true)
                     \/ g[n].type = "top"
         /\ \A x : LeafIn(g, CountTrue(g), CountFalse(g), x)[n] =
                     IF g[n].type = "top" \/ g[n].sign = (g[n].variable \in x) THEN 1 ELSE 0
<1>1. /\ g[n].type \in {"literal", "top"} /\ g[n].sign \in BOOLEAN
      /\ CountTrue(g)[n] = IF g[n].type = "literal" /\ ~g[n].sign THEN 0 ELSE 1
      /\ CountFalse(g)[n] = IF g[n].type = "literal" /\ g[n].sign THEN 0 ELSE 1
  BY GraphFacts DEF CountTrue, CountFalse
<1>2. ASSUME NEW e
      PROVE  EvidenceLeaf(g, CountTrue(g), CountFalse(g), e)[n] > 0 <=>
               \/ /\ g[n].type = "literal"
                  /\ g[n].variable \in e.variables => g[n].sign = (g[n].variable \in e.true)
               \/ g[n].type = "top"
  BY <1>1 DEF EvidenceLeaf
<1>3. ASSUME NEW x
      PROVE  LeafIn(g, CountTrue(g), CountFalse(g), x)[n] =
               IF g[n].type = "top" \/ g[n].sign = (g[n].variable \in x) THEN 1 ELSE 0
  BY <1>1 DEF LeafIn
<1>4. QED
  BY ONLY <1>2, <1>3

\* The models are defined by recursion over the nodes.
LEMMA ModelUnfolds ==
  ASSUME NEW g \in Structures, NEW x
  PROVE  \A n \in DOMAIN g : ModelUnder(g, x)[n] <=> IsModelAt(g, x, n, ModelUnder(g, x))
<1>1. PICK t, f, weight, v :
        /\ t = CountTrue(g) /\ f = CountFalse(g) /\ weight = CountWeights(g)
        /\ v = ValuesIn(g, t, f, weight, x)
  BY Zenon
<1>2. AreFactors(g, t, f, weight)
  BY <1>1, FactorsAreNumbers
<1>3. v \in [DOMAIN g -> Nat] /\ AreValues(g, LeafIn(g, t, f, x), weight, v)
  BY <1>1, <1>2, ValuesInFacts
<1>4. PICK c : c = [n \in DOMAIN g |-> v[n] > 0]
  BY Zenon
<1>5. \A n \in DOMAIN g : c[n] <=> v[n] > 0
  BY <1>4
<1>6. ASSUME NEW n \in DOMAIN g PROVE c[n] <=> IsModelAt(g, x, n, c)
  <2>1. v[n] = ValueAt(g, LeafIn(g, t, f, x), weight, v, n)
    BY <1>3 DEF AreValues
  <2>2. CASE g[n].type = "decision"
    <3>1. v[n] > 0 <=> \E i \in DOMAIN g[n].primes : v[g[n].primes[i]] > 0 /\ v[g[n].subs[i]] > 0
      BY <1>1, <1>3, <2>1, <2>2, PositiveIsOfElements
    <3>2. \A i \in DOMAIN g[n].primes : g[n].primes[i] \in DOMAIN g /\ g[n].subs[i] \in DOMAIN g
      BY GraphFacts
    <3>3. QED
      BY ONLY <1>5, <2>2, <3>1, <3>2, n \in DOMAIN g DEF IsModelAt
  <2>3. CASE g[n].type # "decision"
    <3>1. v[n] = LeafIn(g, t, f, x)[n]
      BY <2>1, <2>3 DEF ValueAt
    <3>2. v[n] = IF g[n].type = "top" \/ g[n].sign = (g[n].variable \in x) THEN 1 ELSE 0
      BY <1>1, <2>3, <3>1, CountLeaves
    <3>3. DOMAIN g[n].primes = {} /\ g[n].type \in {"literal", "top", "decision"}
      BY <2>3, GraphFacts
    <3>4. QED
      BY ONLY <1>5, <2>3, <3>2, <3>3, n \in DOMAIN g DEF IsModelAt
  <2>4. QED
    BY <2>2, <2>3
<1>7. \A n \in DOMAIN g : IsModelAt(g, x, n, c) \in BOOLEAN
  BY DEF IsModelAt
<1>8. \A n \in DOMAIN g : (v[n] > 0) = IsModelAt(g, x, n, c)
  BY <1>5, <1>6, <1>7
<1>9. c = [n \in DOMAIN g |-> IsModelAt(g, x, n, c)]
  <2>1. [n \in DOMAIN g |-> v[n] > 0] = [n \in DOMAIN g |-> IsModelAt(g, x, n, c)]
    BY <1>8, Zenon
  <2>2. QED
    BY <1>4, <2>1, Zenon
<1>10. \E h : h = [n \in DOMAIN g |-> IsModelAt(g, x, n, h)]
  BY <1>9, Zenon
<1>11. ModelUnder(g, x) = [n \in DOMAIN g |-> IsModelAt(g, x, n, ModelUnder(g, x))]
  BY <1>10, Zenon DEF ModelUnder
<1>12. \A n \in DOMAIN g : ModelUnder(g, x)[n] = IsModelAt(g, x, n, ModelUnder(g, x))
  BY <1>11, Zenon
<1>13. QED
  BY <1>12, Zenon

\* What an instantiation counts at a node.
CountsIn(g, x) == ValuesIn(g, CountTrue(g), CountFalse(g), CountWeights(g), x)

LEMMA CountsInFacts ==
  ASSUME NEW g \in Structures, NEW x
  PROVE  /\ CountsIn(g, x) \in [DOMAIN g -> Nat]
         /\ AreValues(g, LeafIn(g, CountTrue(g), CountFalse(g), x), CountWeights(g), CountsIn(g, x))
<1>1. PICK t, f, weight : t = CountTrue(g) /\ f = CountFalse(g) /\ weight = CountWeights(g)
  BY Zenon
<1>2. AreFactors(g, t, f, weight)
  BY <1>1, FactorsAreNumbers
<1>3. /\ ValuesIn(g, t, f, weight, x) \in [DOMAIN g -> Nat]
      /\ AreValues(g, LeafIn(g, t, f, x), weight, ValuesIn(g, t, f, weight, x))
  BY <1>2, ValuesInFacts
<1>4. QED
  BY <1>1, <1>3, Zenon DEF CountsIn

LEMMA ModelsArePositive ==
  ASSUME NEW g \in Structures, NEW x
  PROVE  \A n \in DOMAIN g : CountsIn(g, x)[n] > 0 <=> ModelUnder(g, x)[n]
<1>1. PICK leaf, c, v : /\ leaf = LeafIn(g, CountTrue(g), CountFalse(g), x) /\ c = ModelUnder(g, x)
                        /\ v = CountsIn(g, x)
  BY Zenon
<1>2. ASSUME NEW n \in DOMAIN g
      PROVE  c[n] <=> \/ g[n].type # "decision" /\ leaf[n] > 0
                      \/ \E i \in DOMAIN g[n].primes : c[g[n].primes[i]] /\ c[g[n].subs[i]]
  <2>1. c[n] <=> IsModelAt(g, x, n, c)
    BY <1>1, ModelUnfolds
  <2>2. g[n].type # "decision" =>
          /\ DOMAIN g[n].primes = {}
          /\ leaf[n] = IF g[n].type = "top" \/ g[n].sign = (g[n].variable \in x) THEN 1 ELSE 0
    BY <1>1, CountLeaves, GraphFacts
  <2>3. g[n].type \in {"literal", "top", "decision"}
    BY GraphFacts
  <2>4. QED
    BY ONLY <2>1, <2>2, <2>3 DEF IsModelAt
<1>3. ArePossible(g, leaf, c)
  BY ONLY <1>2, Zenon DEF ArePossible
<1>4. v \in [DOMAIN g -> Nat] /\ AreValues(g, leaf, CountWeights(g), v)
  BY <1>1, CountsInFacts
<1>5. \A n \in DOMAIN g : v[n] > 0 <=> c[n]
  BY <1>3, <1>4, PositiveIsPossible
<1>6. QED
  BY <1>1, <1>5

\* An instantiation counts once: no two primes of a node have a model in common.
LEMMA CountsOnce ==
  ASSUME NEW g \in Structures, NEW x \in SUBSET {g[m].variable : m \in DOMAIN g}
  PROVE  \A n \in DOMAIN g : CountsIn(g, x)[n] \in {0, 1}
<1>1. PICK leaf, c, v : /\ leaf = LeafIn(g, CountTrue(g), CountFalse(g), x) /\ c = ModelUnder(g, x)
                        /\ v = CountsIn(g, x)
  BY Zenon
<1>2. /\ v \in [DOMAIN g -> Nat] /\ AreValues(g, leaf, CountWeights(g), v)
      /\ \A n \in DOMAIN g : v[n] > 0 <=> c[n]
  BY <1>1, CountsInFacts, ModelsArePositive
<1>3. \A n \in DOMAIN g : \A i, j \in DOMAIN g[n].primes :
        c[g[n].primes[i]] /\ c[g[n].primes[j]] => i = j
  BY <1>1, DeterminismAssumption DEF IsDeterministic
<1> DEFINE T == {n \in DOMAIN g : v[n] \notin {0, 1}}
<1>4. SUFFICES ASSUME T # {} PROVE FALSE
  BY <1>1
<1>5. T \in SUBSET Nat
  BY GraphFacts
<1>6. PICK n \in T : \A m \in T : n <= m
  <2> HIDE DEF T
  <2>1. QED
    BY <1>4, <1>5, LeastOf
<1>7. n \in DOMAIN g /\ v[n] \notin {0, 1}
  OBVIOUS
<1>8. ASSUME NEW m \in DOMAIN g, m < n PROVE v[m] \in {0, 1}
  <2>1. m \in Nat /\ n \in Nat /\ ~ n <= m
    BY <1>7, <1>8, GraphFacts
  <2>2. m \notin T
    <3> HIDE DEF T
    <3>1. QED
      BY <1>6, <2>1
  <2>3. QED
    BY <2>2
<1>9. v[n] = ValueAt(g, leaf, CountWeights(g), v, n)
  BY <1>2, <1>7 DEF AreValues
<1>10. CASE g[n].type # "decision"
  <2>1. v[n] = leaf[n]
    BY <1>9, <1>10 DEF ValueAt
  <2>2. QED
    BY <1>1, <1>7, <1>10, <2>1, CountLeaves
<1>11. CASE g[n].type = "decision"
  <2>1. PICK I, f : /\ I = DOMAIN g[n].primes
                    /\ f = [i \in I |-> v[g[n].primes[i]] * v[g[n].subs[i]] * CountWeights(g)[n][i]]
    BY Zenon
  <2>2. v[n] = SumFunctionOnSet(f, I)
    <3>1. ValueAt(g, leaf, CountWeights(g), v, n) = SumFunction(f)
      BY <1>11, <2>1, Zenon DEF ValueAt
    <3>2. DOMAIN f = I
      BY <2>1, Zenon
    <3>3. QED
      BY <1>9, <3>1, <3>2, Zenon DEF SumFunction
  <2>3. ASSUME NEW i \in I
        PROVE  /\ f[i] \in {0, 1} /\ g[n].primes[i] \in DOMAIN g
               /\ v[g[n].primes[i]] \in {0, 1} /\ (v[g[n].primes[i]] = 0 => f[i] = 0)
    <3>1. PICK a, b, w : a = v[g[n].primes[i]] /\ b = v[g[n].subs[i]] /\ w = CountWeights(g)[n][i]
      BY Zenon
    <3>2. a \in {0, 1} /\ b \in {0, 1} /\ g[n].primes[i] \in DOMAIN g
      BY <1>7, <1>8, <2>1, <3>1, GraphFacts
    <3>3. w = 1
      BY <1>7, <2>1, <3>1 DEF CountWeights
    <3>4. f[i] = a * b * w
      BY <2>1, <3>1, Zenon
    <3>5. f[i] \in {0, 1} /\ (a = 0 => f[i] = 0)
      BY ONLY <3>2, <3>3, <3>4
    <3>6. QED
      BY ONLY <3>1, <3>2, <3>5
  <2>4. IsFiniteSet(I)
    BY <1>7, <2>1, ElementsAreFinite
  <2>5. CASE \E i \in I : c[g[n].primes[i]]
    <3>1. PICK i \in I : c[g[n].primes[i]]
      BY <2>5
    <3>2. \A j \in I : j # i => ~ c[g[n].primes[j]]
      BY <1>3, <1>7, <2>1, <3>1
    <3>3. \A j \in I : j # i => f[j] = 0
      <4>1. ASSUME NEW j \in I, j # i PROVE f[j] = 0
        <5>1. ~ v[g[n].primes[j]] > 0
          BY <1>2, <2>3, <3>2, <4>1
        <5>2. QED
          BY ONLY <2>3, <5>1, j \in I
      <4>2. QED
        BY ONLY <4>1
    <3>4. f[i] \in Nat
      BY <2>3
    <3>5. SumFunctionOnSet(f, I) = f[i]
      BY ONLY <2>4, <3>3, <3>4, i \in I, SumOfOne
    <3>6. QED
      BY ONLY <1>7, <2>2, <2>3, <3>5, i \in I
  <2>6. CASE ~ \E i \in I : c[g[n].primes[i]]
    <3>1. \A j \in I : f[j] = 0
      <4>1. ASSUME NEW j \in I PROVE f[j] = 0
        <5>1. ~ v[g[n].primes[j]] > 0
          BY <1>2, <2>3, <2>6
        <5>2. QED
          BY ONLY <2>3, <5>1, j \in I
      <4>2. QED
        BY ONLY <4>1
    <3>2. SumFunctionOnSet(f, I) = 0
      BY ONLY <2>4, <3>1, SumOfZeros
    <3>3. QED
      BY ONLY <1>7, <2>2, <3>2
  <2>7. QED
    BY <2>5, <2>6
<1>12. QED
  BY <1>10, <1>11

LEMMA CountsAreSums ==
  ASSUME NEW g \in Structures, NEW e, NEW n \in DOMAIN g
  PROVE  LET A == AgreeingUnder(g, n, e) IN
         \E f : /\ IsFiniteSet(A) /\ Counts(g, e)[n] = SumFunctionOnSet(f, A)
                /\ \A x \in A : f[x] = CountsIn(g, x)[n]
<1>1. PICK t, f, weight : t = CountTrue(g) /\ f = CountFalse(g) /\ weight = CountWeights(g)
  BY Zenon
<1>2. AreFactors(g, t, f, weight)
  BY <1>1, FactorsAreNumbers
<1>3. PICK E : E = Counts(g, e)
  BY Zenon
<1>4. E \in [DOMAIN g -> Nat] /\ AreValues(g, EvidenceLeaf(g, t, f, e), weight, E)
  BY <1>1, <1>3, CountsFacts
<1>5. IsSumUnder(g, t, f, weight, n, e, E[n])
  BY <1>2, <1>4, SumOverInstantiations
<1>6. PICK A, h : A = AgreeingUnder(g, n, e) /\ h = ValuesUnder(g, t, f, weight, n, e)
  BY Zenon
<1>7. IsFiniteSet(A) /\ E[n] = SumFunctionOnSet(h, A)
  BY <1>5, <1>6 DEF IsSumUnder
<1>8. \A x \in A : h[x] = CountsIn(g, x)[n]
  BY <1>1, <1>6, Zenon DEF ValuesUnder, CountsIn
<1>9. QED
  BY <1>3, <1>6, <1>7, <1>8, Zenon

\* What the count is of: the models; and it is positive if one of them agrees.
LEMMA CountsAreOfModels ==
  ASSUME NEW g \in Structures, NEW e, NEW n \in DOMAIN g
  PROVE  /\ Counts(g, e)[n] = Cardinality({x \in AgreeingUnder(g, n, e) : ModelUnder(g, x)[n]})
         /\ Counts(g, e)[n] > 0 <=> \E x \in AgreeingUnder(g, n, e) : ModelUnder(g, x)[n]
<1>1. PICK A : A = AgreeingUnder(g, n, e)
  BY Zenon
<1>2. PICK f : /\ IsFiniteSet(A) /\ Counts(g, e)[n] = SumFunctionOnSet(f, A)
               /\ \A x \in A : f[x] = CountsIn(g, x)[n]
  BY <1>1, CountsAreSums
<1>3. ASSUME NEW x \in A PROVE f[x] \in {0, 1} /\ (f[x] > 0 <=> ModelUnder(g, x)[n])
  <2>1. \A m \in Below(g, <<n>>) : m \in DOMAIN g
    BY DEF Below
  <2>2. x \in SUBSET {g[m].variable : m \in DOMAIN g}
    BY <1>1, <2>1 DEF AgreeingUnder, AgreeingOn, VariablesUnder
  <2>3. CountsIn(g, x)[n] \in {0, 1}
    BY <2>2, CountsOnce
  <2>4. CountsIn(g, x)[n] > 0 <=> ModelUnder(g, x)[n]
    BY ModelsArePositive
  <2>5. QED
    BY ONLY <1>2, <2>3, <2>4, x \in A
<1>4. \A x \in A : f[x] \in {0, 1} /\ f[x] \in Nat
  BY ONLY <1>3
<1>5. SumFunctionOnSet(f, A) = Cardinality({x \in A : f[x] = 1})
  BY ONLY <1>2, <1>4, SumCounts
<1>6. SumFunctionOnSet(f, A) > 0 <=> \E x \in A : f[x] > 0
  BY ONLY <1>2, <1>4, SumIsPositive
<1>7. {x \in A : f[x] = 1} = {x \in A : ModelUnder(g, x)[n]}
  BY ONLY <1>3
<1>8. Counts(g, e)[n] = Cardinality({x \in A : ModelUnder(g, x)[n]})
  BY ONLY <1>2, <1>5, <1>7, Zenon
<1>9. Counts(g, e)[n] > 0 <=> \E x \in A : ModelUnder(g, x)[n]
  BY ONLY <1>2, <1>3, <1>6
<1>10. QED
  BY ONLY <1>1, <1>8, <1>9, Zenon

-----------------------------------------------------------------------------
(***************************************************************************)
(* What the loops have computed so far, and what they return.              *)
(***************************************************************************)
MapIsRight ==
  pass = "up" =>
    /\ query = "Evaluate" =>
         \A n \in DOMAIN cache : cache[n] = Probabilities(structure, evidence)[n]
    /\ query = "ModelCount" => \A n \in DOMAIN cache : cache[n] = Counts(structure, NoEvidence)[n]
    /\ query = "IsConsistent" =>
         \A n \in FromOn(position + 1) : n \in activation_flag <=> Counts(structure, evidence)[n] > 0

AnswerIsOfRoot ==
  /\ pass = "return" /\ query = "Evaluate" => answer = <<Probabilities(structure, evidence)[Root]>>
  /\ pass = "return" /\ query = "ModelCount" => answer = <<Counts(structure, NoEvidence)[Root]>>
  /\ pass \in {"reset", "return"} /\ query = "IsConsistent" =>
       answer = <<Counts(structure, evidence)[Root] > 0>>

LoopsAreRight == MapIsRight /\ AnswerIsOfRoot

LEMMA ActivatedIsPossible ==
  ASSUME structure \in Structures, NEW n \in Nodes,
         \A c \in ChildrenIn(structure, n) : c \in activation_flag <=> Counts(structure, evidence)[c] > 0
  PROVE  IsActivated(n) <=> Counts(structure, evidence)[n] > 0
<1>1. PICK g, e, leaf, v :
        /\ g = structure /\ e = evidence /\ v = Counts(g, e)
        /\ leaf = EvidenceLeaf(g, CountTrue(g), CountFalse(g), e)
  BY Zenon
<1>2. /\ g \in Structures /\ n \in DOMAIN g
      /\ \A c \in ChildrenIn(g, n) : c \in activation_flag <=> v[c] > 0
  BY <1>1 DEF Nodes
<1>3. v \in [DOMAIN g -> Nat] /\ v[n] = ValueAt(g, leaf, CountWeights(g), v, n)
  BY <1>1, <1>2, CountsFacts DEF AreValues
<1>4. IsActivated(n) <=> \/ g[n].type = "literal" /\ (g[n].variable \in e.variables =>
                                                        g[n].sign = (g[n].variable \in e.true))
                         \/ g[n].type = "top"
                         \/ \E i \in DOMAIN g[n].primes :
                              {g[n].primes[i], g[n].subs[i]} \subseteq activation_flag
  BY <1>1, Zenon DEF IsActivated, TypeOf, IsObserved, Agrees, Variable, Elements, Primes, Subs
<1>5. CASE g[n].type = "decision"
  <2>1. v[n] > 0 <=> \E i \in DOMAIN g[n].primes : v[g[n].primes[i]] > 0 /\ v[g[n].subs[i]] > 0
    BY <1>2, <1>3, <1>5, PositiveIsOfElements
  <2>2. \A i \in DOMAIN g[n].primes : /\ g[n].primes[i] \in activation_flag <=> v[g[n].primes[i]] > 0
                                      /\ g[n].subs[i] \in activation_flag <=> v[g[n].subs[i]] > 0
    BY <1>2, GraphFacts
  <2>3. v[n] > 0 <=> IsActivated(n)
    BY ONLY <1>4, <1>5, <2>1, <2>2
  <2>4. QED
    BY <1>1, <2>3
<1>6. CASE g[n].type # "decision"
  <2>1. v[n] = leaf[n]
    BY <1>3, <1>6 DEF ValueAt
  <2>2. leaf[n] > 0 <=> \/ g[n].type = "literal" /\ (g[n].variable \in e.variables =>
                                                       g[n].sign = (g[n].variable \in e.true))
                        \/ g[n].type = "top"
    BY <1>1, <1>2, <1>6, CountLeaves
  <2>3. DOMAIN g[n].primes = {}
    BY <1>2, <1>6, GraphFacts
  <2>4. v[n] > 0 <=> IsActivated(n)
    BY ONLY <1>4, <2>1, <2>2, <2>3
  <2>5. QED
    BY <1>1, <2>4
<1>7. QED
  BY <1>5, <1>6

\* A step of a loop upwards.
LEMMA UpKeepsMap ==
  ASSUME QInv, LoopsAreRight, ActivateNode \/ EvaluateNode \/ CountNode
  PROVE  LoopsAreRight'
<1>1. /\ UNCHANGED <<serializerVars, query, pass, evidence>> /\ pass = "up"
      /\ position > 0 /\ position' = position - 1
  BY DEF ActivateNode, EvaluateNode, CountNode, Up
<1>2. /\ structure' = structure /\ structure \in Structures /\ At \in Nodes
      /\ FromOn(position + 1)' = FromOn(position + 1) \cup {At}
      /\ ChildrenIn(structure, At) \subseteq FromOn(position + 1)
  BY <1>1, UpFacts DEF serializerVars
<1>3. UsesMap => DOMAIN cache = FromOn(position + 1)
  BY <1>1 DEF QInv, MapFollowsPass
<1>4. CASE EvaluateNode
  <2>1. /\ query = "Evaluate"
        /\ cache' = [c \in DOMAIN cache \cup {At} |-> IF c = At THEN ProbabilityOf(At) ELSE cache[c]]
    BY <1>4 DEF EvaluateNode, Up
  <2>2. \A n \in DOMAIN cache : cache[n] = Probabilities(structure, evidence)[n]
    BY <1>1, <2>1 DEF LoopsAreRight, MapIsRight
  <2>3. ProbabilityOf(At) = Probabilities(structure, evidence)[At]
    <3>1. \A c \in ChildrenIn(structure, At) : cache[c] = Probabilities(structure, evidence)[c]
      BY <1>2, <1>3, <2>1, <2>2 DEF UsesMap
    <3>2. QED
      BY <1>2, <3>1, ProbabilityIsOfChildren
  <2>4. PICK v, a, old : v = Probabilities(structure, evidence) /\ a = At /\ old = cache
    BY Zenon
  <2>5. \A n \in DOMAIN cache' : cache'[n] = v[n]
    <3>1. cache' = [c \in DOMAIN old \cup {a} |-> IF c = a THEN v[a] ELSE old[c]]
      BY <2>1, <2>3, <2>4
    <3>2. \A n \in DOMAIN old : old[n] = v[n]
      BY <2>2, <2>4
    <3>3. QED
      BY ONLY <3>1, <3>2
  <2>6. v = Probabilities(structure, evidence)'
    BY <1>1, <1>2, <2>4
  <2>7. QED
    BY <1>1, <2>1, <2>5, <2>6 DEF LoopsAreRight, MapIsRight, AnswerIsOfRoot
<1>5. CASE CountNode
  <2>1. /\ query = "ModelCount"
        /\ cache' = [c \in DOMAIN cache \cup {At} |-> IF c = At THEN CountOf(At) ELSE cache[c]]
    BY <1>5 DEF CountNode, Up
  <2>2. \A n \in DOMAIN cache : cache[n] = Counts(structure, NoEvidence)[n]
    BY <1>1, <2>1 DEF LoopsAreRight, MapIsRight
  <2>3. CountOf(At) = Counts(structure, NoEvidence)[At]
    <3>1. \A c \in ChildrenIn(structure, At) : cache[c] = Counts(structure, NoEvidence)[c]
      BY <1>2, <1>3, <2>1, <2>2 DEF UsesMap
    <3>2. QED
      BY <1>2, <3>1, CountIsOfChildren
  <2>4. PICK v, a, old : v = Counts(structure, NoEvidence) /\ a = At /\ old = cache
    BY Zenon
  <2>5. \A n \in DOMAIN cache' : cache'[n] = v[n]
    <3>1. cache' = [c \in DOMAIN old \cup {a} |-> IF c = a THEN v[a] ELSE old[c]]
      BY <2>1, <2>3, <2>4
    <3>2. \A n \in DOMAIN old : old[n] = v[n]
      BY <2>2, <2>4
    <3>3. QED
      BY ONLY <3>1, <3>2
  <2>6. v = Counts(structure, NoEvidence)'
    BY <1>2, <2>4
  <2>7. QED
    BY <1>1, <2>1, <2>5, <2>6 DEF LoopsAreRight, MapIsRight, AnswerIsOfRoot
<1>6. CASE ActivateNode
  <2>1. /\ query = "IsConsistent"
        /\ activation_flag' = IF IsActivated(At) THEN activation_flag \cup {At} ELSE activation_flag
    BY <1>6 DEF ActivateNode, Up
  <2>2. PICK v, a, old, F : /\ v = Counts(structure, evidence) /\ a = At /\ old = activation_flag
                            /\ F = FromOn(position + 1)
    BY Zenon
  <2>3. \A n \in F : n \in old <=> v[n] > 0
    BY <1>1, <2>1, <2>2 DEF LoopsAreRight, MapIsRight
  <2>4. IsActivated(At) <=> v[a] > 0
    <3>1. \A c \in ChildrenIn(structure, At) : c \in activation_flag <=> Counts(structure, evidence)[c] > 0
      BY <1>2, <2>2, <2>3
    <3>2. QED
      BY <1>2, <2>2, <3>1, ActivatedIsPossible
  <2>5. old \subseteq F
    BY <1>1, <2>1, <2>2 DEF QInv, FlagsFollowPass
  <2>6. \A n \in F \cup {a} : n \in activation_flag' <=> v[n] > 0
    <3>1. activation_flag' = IF v[a] > 0 THEN old \cup {a} ELSE old
      BY <2>1, <2>2, <2>4
    <3>2. QED
      BY ONLY <2>3, <2>5, <3>1
  <2>7. v = Counts(structure, evidence)' /\ FromOn(position + 1)' = F \cup {a}
    BY <1>1, <1>2, <2>2
  <2>8. QED
    BY <1>1, <2>1, <2>6, <2>7 DEF LoopsAreRight, MapIsRight, AnswerIsOfRoot
<1>7. QED
  BY <1>4, <1>5, <1>6

\* The root is in the list that was serialized.
LEMMA RootIsListed ==
  ASSUME QInv, pass # "none", pass # "serialize"
  PROVE  Root \in Range(result) /\ Root \in Nodes /\ structure \in Structures
<1>1. roots # <<>> /\ Serialized
  BY DEF QInv, Control
<1>2. /\ roots \in Seq(Nat) /\ RootsTaken /\ next_root \in 1..Len(roots) + 1 /\ structure \in Structures
      /\ \A k \in DOMAIN roots : k < next_root => roots[k] \in Range(result)
  BY <1>1 DEF QInv, SInv, RootsAreGiven, ListIsTyped, SeenIsListed, Serialized
<1>3. 1 \in DOMAIN roots /\ 1 < next_root
  BY <1>1, <1>2 DEF RootsTaken
<1>4. Root \in Range(result)
  BY <1>2, <1>3 DEF Root
<1>5. QED
  BY <1>2, <1>4, PlaceFacts

\* The end of a loop upwards, where the answer is taken from the root.
LEMMA EndUpKeepsAnswer ==
  ASSUME QInv, LoopsAreRight, EndUp
  PROVE  LoopsAreRight'
<1>1. /\ UNCHANGED <<serializerVars, query, evidence>> /\ pass = "up" /\ position = 0
      /\ query = "IsConsistent" => answer' = <<roots[1] \in activation_flag>> /\ pass' = "reset"
      /\ UsesMap => answer' = <<cache[roots[1]]>> /\ pass' = "return"
      /\ ~UsesMap /\ query # "IsConsistent" => pass' \in {"extract", "reset"}
  <2>1. query \in Queries /\ query # "GetMarginals" /\ pass = "up"
    BY DEF QInv, Control, EndUp
  <2>2. QED
    BY <2>1 DEF EndUp, Enter, UsesMap, Queries
<1>2. structure' = structure /\ roots' = roots
  BY <1>1 DEF serializerVars
<1>3. Root \in FromOn(position + 1)
  <2>1. FromOn(position + 1) = FromOn(1)
    BY <1>1
  <2>2. Root \in Range(result) /\ FromOn(1) = Range(result)
    BY <1>1, RootIsListed, PlaceFacts
  <2>3. QED
    BY <2>1, <2>2
<1>4. UsesMap => DOMAIN cache = FromOn(position + 1)
  BY <1>1 DEF QInv, MapFollowsPass
<1>5. query = "Evaluate" => cache[Root] = Probabilities(structure, evidence)[Root]
  BY <1>1, <1>3, <1>4 DEF LoopsAreRight, MapIsRight, UsesMap
<1>6. query = "ModelCount" => cache[Root] = Counts(structure, NoEvidence)[Root]
  BY <1>1, <1>3, <1>4 DEF LoopsAreRight, MapIsRight, UsesMap
<1>7. query = "IsConsistent" =>
        (Root \in activation_flag) = (Counts(structure, evidence)[Root] > 0)
  BY <1>1, <1>3 DEF LoopsAreRight, MapIsRight
<1>8. PICK p, c, k : /\ p = Probabilities(structure, evidence)[Root]
                     /\ c = Counts(structure, NoEvidence)[Root]
                     /\ k = Counts(structure, evidence)[Root]
  BY Zenon
<1>9. /\ p = Probabilities(structure, evidence)[Root]'
      /\ c = Counts(structure, NoEvidence)[Root]'
      /\ k = Counts(structure, evidence)[Root]'
  BY <1>1, <1>2, <1>8 DEF Root
<1>10. /\ query = "Evaluate" => answer' = <<p>> /\ pass' = "return"
       /\ query = "ModelCount" => answer' = <<c>> /\ pass' = "return"
       /\ query = "IsConsistent" => answer' = <<k > 0>> /\ pass' = "reset"
  BY <1>1, <1>5, <1>6, <1>7, <1>8 DEF Root, UsesMap
<1>11. pass' # "up"
  BY <1>1 DEF UsesMap
<1>12. QED
  BY <1>1, <1>9, <1>10, <1>11 DEF LoopsAreRight, MapIsRight, AnswerIsOfRoot

\* The other steps compute nothing of these.
LEMMA OthersKeepAnswer ==
  ASSUME QInv, LoopsAreRight,
         \/ Begin \/ Serialize \/ EndSerialize \/ MaximizeNode \/ WriteLine
         \/ Extract \/ EndExtract \/ NumberNode \/ EndNumber \/ DeriveNode \/ EndDown
         \/ ResetNode \/ EndReset \/ Return \/ UNCHANGED vars
  PROVE  LoopsAreRight'
<1>1. CASE Begin \/ Serialize \/ Return
  <2>1. pass' \in {"serialize", "none"}
    BY <1>1 DEF Begin, Serialize, Return, Enter
  <2>2. QED
    BY <2>1 DEF LoopsAreRight, MapIsRight, AnswerIsOfRoot
<1>2. CASE EndSerialize
  <2>1. /\ UNCHANGED <<serializerVars, query, cache>> /\ pass = "serialize"
        /\ pass' = "number" \/ (pass' = "up" /\ position' = Len(result))
    BY <1>2 DEF EndSerialize, Enter, localVars
  <2>2. DOMAIN cache = {} /\ FromOn(Len(result) + 1) = {}
    BY <2>1, PlaceFacts DEF QInv, MapFollowsPass
  <2>3. pass' = "up" => FromOn(position + 1)' = {}
    BY <2>1, <2>2, ListStays
  <2>4. QED
    BY <2>1, <2>2, <2>3 DEF LoopsAreRight, MapIsRight, AnswerIsOfRoot
<1>3. CASE MaximizeNode \/ WriteLine
  <2>1. query' \in {"GetMPESolution", "WritePsddToFile"}
    BY <1>3 DEF MaximizeNode, WriteLine, Up
  <2>2. QED
    BY <2>1 DEF LoopsAreRight, MapIsRight, AnswerIsOfRoot
<1>4. CASE Extract \/ EndExtract \/ NumberNode \/ EndNumber \/ DeriveNode \/ EndDown
  <2>1. query' = query /\ pass \in {"extract", "number", "down"}
    BY <1>4 DEF Extract, EndExtract, NumberNode, EndNumber, DeriveNode, EndDown
  <2>2. query' \in {"GetMPESolution", "GetMarginals"}
    BY <2>1 DEF QInv, Control
  <2>3. QED
    BY <2>2 DEF LoopsAreRight, MapIsRight, AnswerIsOfRoot
<1>5. CASE ResetNode \/ EndReset
  <2>1. /\ UNCHANGED <<serializerVars, query, evidence, answer>>
        /\ pass = "reset" /\ pass' \in {"reset", "return"}
    BY <1>5 DEF ResetNode, EndReset, Enter, localVars
  <2>2. ~UsesMap
    BY <2>1 DEF QInv, Control
  <2>3. structure' = structure /\ roots' = roots
    BY <2>1 DEF serializerVars
  <2>4. PICK k : k = Counts(structure, evidence)[Root]
    BY Zenon
  <2>5. k = Counts(structure, evidence)[Root]'
    BY <2>1, <2>3, <2>4 DEF Root
  <2>6. query = "IsConsistent" => answer' = <<k > 0>>
    BY <2>1, <2>4 DEF LoopsAreRight, AnswerIsOfRoot
  <2>7. QED
    BY <2>1, <2>2, <2>5, <2>6 DEF LoopsAreRight, MapIsRight, AnswerIsOfRoot, UsesMap
<1>6. CASE UNCHANGED vars
  <2>1. /\ UNCHANGED <<serializerVars, query, evidence, answer, pass, position, cache, activation_flag>>
    BY <1>6 DEF vars, nodeVars, localVars
  <2>2. structure' = structure /\ roots' = roots /\ Root' = Root /\ FromOn(position + 1)' = FromOn(position + 1)
    BY <2>1, ListStays DEF Root
  <2>3. MapIsRight'
    BY <2>1, <2>2 DEF LoopsAreRight, MapIsRight
  <2>4. AnswerIsOfRoot'
    BY <2>1, <2>2 DEF LoopsAreRight, AnswerIsOfRoot
  <2>5. QED
    BY <2>3, <2>4 DEF LoopsAreRight
<1>7. QED
  BY <1>1, <1>2, <1>3, <1>4, <1>5, <1>6

\* The loops of IsConsistent, Evaluate and ModelCount compute, node by node, what is consistent,
\* the probability and the number of models.
THEOREM LoopsInvariant == Spec => [](QInv /\ LoopsAreRight)
<1>1. QueriesInit => LoopsAreRight
  BY DEF QueriesInit, LoopsAreRight, MapIsRight, AnswerIsOfRoot
<1>2. QInv /\ LoopsAreRight /\ [Next]_vars => LoopsAreRight'
  BY UpKeepsMap, EndUpKeepsAnswer, OthersKeepAnswer DEF Next, Work
<1>3. QED
  BY <1>1, <1>2, QueriesInvariant, PTL DEF Spec

-----------------------------------------------------------------------------
(***************************************************************************)
(* What the answers are compared with.                                     *)
(***************************************************************************)
\* What an instantiation weighs at a node.
WeightsIn(g, x) == ValuesIn(g, TrueOf(g), FalseOf(g), ParametersOf(g), x)

LEMMA WeightsInFacts ==
  ASSUME NEW g \in Structures, NEW x
  PROVE  /\ WeightsIn(g, x) \in [DOMAIN g -> Nat]
         /\ AreValues(g, LeafIn(g, TrueOf(g), FalseOf(g), x), ParametersOf(g), WeightsIn(g, x))
<1>1. PICK t, f, weight : t = TrueOf(g) /\ f = FalseOf(g) /\ weight = ParametersOf(g)
  BY Zenon
<1>2. AreFactors(g, t, f, weight)
  BY <1>1, FactorsAreNumbers
<1>3. /\ ValuesIn(g, t, f, weight, x) \in [DOMAIN g -> Nat]
      /\ AreValues(g, LeafIn(g, t, f, x), weight, ValuesIn(g, t, f, weight, x))
  BY <1>2, ValuesInFacts
<1>4. QED
  BY <1>1, <1>3, Zenon DEF WeightsIn

LEMMA WeightIsValue ==
  ASSUME structure \in Structures, NEW x, NEW n \in Nodes, NEW v
  PROVE  WeightAt(x, n, v) =
           ValueAt(structure, LeafIn(structure, TrueOf(structure), FalseOf(structure), x),
                   ParametersOf(structure), v, n)
<1>1. PICK g, leaf : g = structure /\ leaf = LeafIn(g, TrueOf(g), FalseOf(g), x)
  BY Zenon
<1>2. g \in Structures /\ n \in DOMAIN g
  BY <1>1 DEF Nodes
<1>3. CASE g[n].type = "decision"
  <2>1. [i \in DOMAIN g[n].primes |-> v[g[n].primes[i]] * v[g[n].subs[i]] * g[n].parameters[i]] =
        [i \in DOMAIN g[n].primes |-> v[g[n].primes[i]] * v[g[n].subs[i]] * ParametersOf(g)[n][i]]
    <3>1. ParametersOf(g)[n] = g[n].parameters
      BY <1>2 DEF ParametersOf
    <3>2. QED
      BY <3>1, Zenon
  <2>2. SumOfProducts(n, v, Parameters(n)) = ValueAt(g, leaf, ParametersOf(g), v, n)
    BY <1>1, <1>3, <2>1, Zenon DEF SumOfProducts, Elements, Primes, Subs, Parameters, ValueAt
  <2>3. WeightAt(x, n, v) = SumOfProducts(n, v, Parameters(n))
    BY <1>1, <1>3 DEF WeightAt, TypeOf
  <2>4. QED
    BY <1>1, <2>2, <2>3
<1>4. CASE g[n].type # "decision"
  <2>1. ValueAt(g, leaf, ParametersOf(g), v, n) = leaf[n]
    BY <1>4 DEF ValueAt
  <2>2. leaf[n] = IF g[n].variable \in x THEN TrueOf(g)[n] ELSE FalseOf(g)[n]
    BY <1>1, <1>2 DEF LeafIn
  <2>3. CASE g[n].type = "literal"
    <3>1. /\ TrueOf(g)[n] = IF g[n].sign THEN One ELSE 0
          /\ FalseOf(g)[n] = IF g[n].sign THEN 0 ELSE One
          /\ g[n].sign \in BOOLEAN
      BY <1>2, <2>3, GraphFacts DEF TrueOf, FalseOf
    <3>2. WeightAt(x, n, v) = IF g[n].sign = (g[n].variable \in x) THEN One ELSE 0
      BY <1>1, <2>3, Zenon DEF WeightAt, TypeOf, Variable
    <3>3. QED
      BY <1>1, <2>1, <2>2, <3>1, <3>2
  <2>4. CASE g[n].type = "top"
    <3>1. TrueOf(g)[n] = g[n].parameters[1] /\ FalseOf(g)[n] = g[n].parameters[2]
      BY <1>2, <2>4 DEF TrueOf, FalseOf
    <3>2. WeightAt(x, n, v) = IF g[n].variable \in x THEN g[n].parameters[1] ELSE g[n].parameters[2]
      BY <1>1, <2>4 DEF WeightAt, TypeOf, Variable, TrueParameter, FalseParameter, Parameters
    <3>3. QED
      BY <1>1, <2>1, <2>2, <3>1, <3>2
  <2>5. QED
    BY <1>2, <1>4, <2>3, <2>4, GraphFacts
<1>5. QED
  BY <1>3, <1>4

LEMMA WeightIsOfRoot ==
  ASSUME structure \in Structures, Root \in Nodes, NEW x
  PROVE  Weight(x) = WeightsIn(structure, x)[Root]
<1>1. PICK v, leaf : /\ v = WeightsIn(structure, x)
                     /\ leaf = LeafIn(structure, TrueOf(structure), FalseOf(structure), x)
  BY Zenon
<1>2. v \in [Nodes -> Nat] /\ AreValues(structure, leaf, ParametersOf(structure), v)
  BY <1>1, WeightsInFacts DEF Nodes
<1>3. \A n \in Nodes : v[n] = WeightAt(x, n, v)
  BY <1>1, <1>2, WeightIsValue DEF AreValues, Nodes
<1>4. v = [n \in DOMAIN structure |-> WeightAt(x, n, v)]
  <2>1. [n \in Nodes |-> v[n]] = [n \in Nodes |-> WeightAt(x, n, v)]
    BY <1>3, Zenon
  <2>2. v = [n \in Nodes |-> v[n]]
    BY <1>2
  <2>3. QED
    BY <2>1, <2>2, Zenon DEF Nodes
<1>5. \E h : h = [n \in DOMAIN structure |-> WeightAt(x, n, h)]
  BY <1>4, Zenon
<1>6. \E h : h = [n \in DOMAIN structure |-> WeightAt(x, n, h)] /\ Weight(x) = h[Root]
  BY <1>5, Zenon DEF Weight
<1>7. PICK h : h = [n \in DOMAIN structure |-> WeightAt(x, n, h)] /\ Weight(x) = h[Root]
  BY <1>6
<1>8. AreValues(structure, leaf, ParametersOf(structure), h)
  <2>1. \A n \in DOMAIN structure : h[n] = WeightAt(x, n, h)
    BY <1>7, Zenon
  <2>2. \A n \in DOMAIN structure : h[n] = ValueAt(structure, leaf, ParametersOf(structure), h, n)
    BY <1>1, <2>1, WeightIsValue DEF Nodes
  <2>3. QED
    BY <2>2 DEF AreValues
<1>9. h[Root] = v[Root]
  BY <1>2, <1>8, ValuesAgree DEF Nodes
<1>10. QED
  BY <1>1, <1>7, <1>9

\* The probability of some evidence is that of the instantiations that agree.
LEMMA ProbabilityIsTotal ==
  ASSUME structure \in Structures, Root \in Nodes, NEW e
  PROVE  Probabilities(structure, e)[Root] = TotalWeight(AgreeingOn(Scope, e))
<1>1. PICK g, n, t, f, weight : /\ g = structure /\ n = Root
                                /\ t = TrueOf(g) /\ f = FalseOf(g) /\ weight = ParametersOf(g)
  BY Zenon
<1>2. g \in Structures /\ n \in DOMAIN g /\ AreFactors(g, t, f, weight)
  BY <1>1, FactorsAreNumbers DEF Nodes
<1>3. PICK E : E = Probabilities(g, e)
  BY Zenon
<1>4. E \in [DOMAIN g -> Nat] /\ AreValues(g, EvidenceLeaf(g, t, f, e), weight, E)
  BY <1>1, <1>2, <1>3, ProbabilitiesFacts
<1>5. IsSumUnder(g, t, f, weight, n, e, E[n])
  BY <1>2, <1>4, SumOverInstantiations
<1>6. PICK A, h : A = AgreeingUnder(g, n, e) /\ h = ValuesUnder(g, t, f, weight, n, e)
  BY Zenon
<1>7. E[n] = SumFunctionOnSet(h, A)
  BY <1>5, <1>6 DEF IsSumUnder
<1>8. AgreeingOn(Scope, e) = A
  BY <1>1, <1>6 DEF Scope, AgreeingUnder
<1>9. h = [x \in A |-> Weight(x)]
  <2>1. \A x \in A : Weight(x) = ValuesIn(g, t, f, weight, x)[n]
    BY <1>1, WeightIsOfRoot DEF WeightsIn
  <2>2. [x \in A |-> Weight(x)] = [x \in A |-> ValuesIn(g, t, f, weight, x)[n]]
    BY <2>1, Zenon
  <2>3. QED
    BY <1>6, <2>2, Zenon DEF ValuesUnder
<1>10. TotalWeight(A) = SumFunctionOnSet(h, A)
  <2>1. TotalWeight(A) = SumFunction(h)
    BY <1>9, Zenon DEF TotalWeight
  <2>2. DOMAIN h = A
    BY <1>9, Zenon
  <2>3. QED
    BY <2>1, <2>2, Zenon DEF SumFunction
<1>11. QED
  BY <1>1, <1>3, <1>7, <1>8, <1>10

\* The node's own IsConsistent.
ConsistentAt(n, consistent) ==
  \/ TypeOf(n) = "literal" /\ (IsObserved(n) => Agrees(n))
  \/ TypeOf(n) = "top"
  \/ \E i \in Elements(n) : consistent[Primes(n)[i]] /\ consistent[Subs(n)[i]]

LEMMA ConsistentIsPossible ==
  ASSUME structure \in Structures, NEW c,
         \A n \in Nodes : c[n] <=> ConsistentAt(n, c)
  PROVE  \A n \in Nodes : c[n] <=> Counts(structure, evidence)[n] > 0
<1>1. PICK g, e, leaf, v :
        /\ g = structure /\ e = evidence /\ v = Counts(g, e)
        /\ leaf = EvidenceLeaf(g, CountTrue(g), CountFalse(g), e)
  BY Zenon
<1>2. /\ g \in Structures /\ Nodes = DOMAIN g
      /\ v \in [DOMAIN g -> Nat] /\ AreValues(g, leaf, CountWeights(g), v)
  BY <1>1, CountsFacts DEF Nodes
<1>3. ASSUME NEW n \in DOMAIN g
      PROVE  c[n] <=> \/ g[n].type # "decision" /\ leaf[n] > 0
                      \/ \E i \in DOMAIN g[n].primes : c[g[n].primes[i]] /\ c[g[n].subs[i]]
  <2>1. c[n] <=> \/ g[n].type = "literal" /\ (g[n].variable \in e.variables =>
                                                g[n].sign = (g[n].variable \in e.true))
                 \/ g[n].type = "top"
                 \/ \E i \in DOMAIN g[n].primes : c[g[n].primes[i]] /\ c[g[n].subs[i]]
    <3>1. c[n] <=> ConsistentAt(n, c)
      BY <1>2
    <3>2. QED
      BY <1>1, <3>1, Zenon DEF ConsistentAt, TypeOf, IsObserved, Agrees, Variable, Elements, Primes, Subs
  <2>2. g[n].type # "decision" =>
          (leaf[n] > 0 <=> \/ g[n].type = "literal" /\ (g[n].variable \in e.variables =>
                                                          g[n].sign = (g[n].variable \in e.true))
                           \/ g[n].type = "top")
    BY <1>1, <1>2, CountLeaves
  <2>3. g[n].type \in {"literal", "top", "decision"}
    BY <1>2, GraphFacts
  <2>4. QED
    BY ONLY <2>1, <2>2, <2>3
<1>4. ArePossible(g, leaf, c)
  BY ONLY <1>3, Zenon DEF ArePossible
<1>5. \A n \in DOMAIN g : v[n] > 0 <=> c[n]
  BY <1>2, <1>4, PositiveIsPossible
<1>6. QED
  BY <1>1, <1>2, <1>5

LEMMA ConsistencyIsPossibility ==
  ASSUME structure \in Structures, NEW root \in Nodes
  PROVE  IsConsistentAt(root) = (Counts(structure, evidence)[root] > 0)
<1>1. PICK v : v = Counts(structure, evidence)
  BY Zenon
<1>2. PICK c : c = [n \in Nodes |-> v[n] > 0]
  BY Zenon
<1>3. ASSUME NEW n \in Nodes PROVE c[n] = ConsistentAt(n, c)
  <2>1. PICK g, e, leaf : /\ g = structure /\ e = evidence
                          /\ leaf = EvidenceLeaf(g, CountTrue(g), CountFalse(g), e)
    BY Zenon
  <2>2. /\ g \in Structures /\ Nodes = DOMAIN g
        /\ v \in [DOMAIN g -> Nat] /\ v[n] = ValueAt(g, leaf, CountWeights(g), v, n)
    BY <1>1, <2>1, CountsFacts DEF Nodes, AreValues
  <2>3. ConsistentAt(n, c) <=> \/ g[n].type = "literal" /\ (g[n].variable \in e.variables =>
                                                              g[n].sign = (g[n].variable \in e.true))
                               \/ g[n].type = "top"
                               \/ \E i \in DOMAIN g[n].primes : c[g[n].primes[i]] /\ c[g[n].subs[i]]
    BY <2>1, Zenon DEF ConsistentAt, TypeOf, IsObserved, Agrees, Variable, Elements, Primes, Subs
  <2>7. ConsistentAt(n, c) \in BOOLEAN
    BY DEF ConsistentAt
  <2>4. CASE g[n].type = "decision"
    <3>1. v[n] > 0 <=> \E i \in DOMAIN g[n].primes : v[g[n].primes[i]] > 0 /\ v[g[n].subs[i]] > 0
      BY <2>2, <2>4, PositiveIsOfElements
    <3>2. \A i \in DOMAIN g[n].primes : /\ c[g[n].primes[i]] = (v[g[n].primes[i]] > 0)
                                        /\ c[g[n].subs[i]] = (v[g[n].subs[i]] > 0)
      BY <1>2, <2>2, GraphFacts
    <3>3. v[n] > 0 <=> ConsistentAt(n, c)
      BY ONLY <2>3, <2>4, <3>1, <3>2
    <3>4. QED
      BY <1>2, <2>7, <3>3
  <2>5. CASE g[n].type # "decision"
    <3>1. v[n] = leaf[n] /\ DOMAIN g[n].primes = {} /\ g[n].type \in {"literal", "top", "decision"}
      BY <2>2, <2>5, GraphFacts DEF ValueAt
    <3>2. leaf[n] > 0 <=> \/ g[n].type = "literal" /\ (g[n].variable \in e.variables =>
                                                         g[n].sign = (g[n].variable \in e.true))
                          \/ g[n].type = "top"
      BY <2>1, <2>2, <2>5, CountLeaves
    <3>3. v[n] > 0 <=> ConsistentAt(n, c)
      BY ONLY <2>3, <2>5, <3>1, <3>2
    <3>4. QED
      BY <1>2, <2>7, <3>3
  <2>6. QED
    BY <2>4, <2>5
<1>4. c = [n \in DOMAIN structure |-> ConsistentAt(n, c)]
  <2>1. [n \in Nodes |-> c[n]] = [n \in Nodes |-> ConsistentAt(n, c)]
    BY <1>3, Zenon
  <2>2. c = [n \in Nodes |-> c[n]]
    BY <1>2
  <2>3. QED
    BY <2>1, <2>2, Zenon DEF Nodes
<1>5. \E h : h = [n \in DOMAIN structure |-> ConsistentAt(n, h)]
  BY <1>4, Zenon
<1>6. \E h : h = [n \in DOMAIN structure |-> ConsistentAt(n, h)] /\ IsConsistentAt(root) = h[root]
  BY <1>5, Zenon DEF IsConsistentAt, ConsistentAt
<1>7. PICK h : h = [n \in DOMAIN structure |-> ConsistentAt(n, h)] /\ IsConsistentAt(root) = h[root]
  BY <1>6
<1>8. \A n \in Nodes : h[n] = ConsistentAt(n, h)
  BY <1>7, Zenon DEF Nodes
<1>9. \A n \in Nodes : h[n] <=> Counts(structure, evidence)[n] > 0
  BY <1>8, ConsistentIsPossible
<1>10. h[root] \in BOOLEAN
  BY <1>8 DEF ConsistentAt
<1>11. QED
  BY <1>7, <1>9, <1>10

-----------------------------------------------------------------------------
\* The answers of IsConsistent, Evaluate and ModelCount, for any PSDDs and any sequence of calls:
\* there is a model that agrees with the evidence, the probability is that of all instantiations
\* that agree, and the count is that of the models.
THEOREM AnswersAreRight == Spec => []AnswerIsRight
<1>1. ASSUME QInv, LoopsAreRight PROVE AnswerIsRight
  <2>1. SUFFICES ASSUME pass = "return"
                 PROVE  /\ query = "IsConsistent" => /\ answer = <<\E x \in Agreeing : IsModel(x)>>
                                                     /\ answer = <<IsConsistentAt(Root)>>
                        /\ query = "Evaluate" => answer = <<TotalWeight(Agreeing)>>
                        /\ query = "ModelCount" =>
                             answer = <<Cardinality({x \in Instantiations : IsModel(x)})>>
    BY DEF AnswerIsRight
  <2>2. structure \in Structures /\ Root \in Nodes
    BY <1>1, <2>1, RootIsListed
  <2>3. query = "Evaluate" => answer = <<TotalWeight(Agreeing)>>
    <3>1. AgreeingOn(Scope, evidence) = Agreeing
      BY DEF AgreeingOn, Agreeing, Instantiations
    <3>2. Probabilities(structure, evidence)[Root] = TotalWeight(Agreeing)
      BY <2>2, <3>1, ProbabilityIsTotal
    <3>3. QED
      BY <1>1, <2>1, <3>2 DEF LoopsAreRight, AnswerIsOfRoot
  <2>4. PICK g, e, n : g = structure /\ e = evidence /\ n = Root
    BY Zenon
  <2>5. g \in Structures /\ n \in DOMAIN g
    BY <2>2, <2>4 DEF Nodes
  <2>6. \A x : IsModel(x) <=> ModelUnder(g, x)[n]
    BY <2>4 DEF IsModel
  <2>7. ASSUME query = "ModelCount"
        PROVE  answer = <<Cardinality({x \in Instantiations : IsModel(x)})>>
    <3>1. answer = <<Counts(g, NoEvidence)[n]>>
      BY <1>1, <2>1, <2>4, <2>7 DEF LoopsAreRight, AnswerIsOfRoot
    <3>2. PICK A : A = AgreeingUnder(g, n, NoEvidence)
      BY Zenon
    <3>3. Counts(g, NoEvidence)[n] = Cardinality({x \in A : ModelUnder(g, x)[n]})
      BY <2>5, <3>2, CountsAreOfModels
    <3>4. A = Instantiations
      BY <2>4, <3>2 DEF AgreeingUnder, AgreeingOn, NoEvidence, Instantiations, Scope
    <3>5. {x \in A : ModelUnder(g, x)[n]} = {x \in Instantiations : IsModel(x)}
      BY ONLY <2>6, <3>4
    <3>6. QED
      BY ONLY <3>1, <3>3, <3>5, Zenon
  <2>8. ASSUME query = "IsConsistent"
        PROVE  /\ answer = <<\E x \in Agreeing : IsModel(x)>>
               /\ answer = <<IsConsistentAt(Root)>>
    <3>1. PICK k : k = Counts(g, e)[n]
      BY Zenon
    <3>2. answer = <<k > 0>>
      BY <1>1, <2>1, <2>4, <2>8, <3>1 DEF LoopsAreRight, AnswerIsOfRoot
    <3>3. k > 0 <=> \E x \in AgreeingUnder(g, n, e) : ModelUnder(g, x)[n]
      BY <2>5, <3>1, CountsAreOfModels
    <3>4. AgreeingUnder(g, n, e) = Agreeing
      BY <2>4 DEF AgreeingUnder, AgreeingOn, Agreeing, Instantiations, Scope
    <3>5. k > 0 <=> \E x \in Agreeing : IsModel(x)
      BY ONLY <2>6, <3>3, <3>4
    <3>6. IsConsistentAt(Root) = (k > 0)
      BY <2>2, <2>4, <3>1, ConsistencyIsPossibility
    <3>7. (k > 0) = (\E x \in Agreeing : IsModel(x))
      <4>1. k \in Nat
        BY <2>5, <3>1, CountsFacts
      <4>2. PICK some : some = \E x \in Agreeing : IsModel(x)
        BY Zenon
      <4>3. some \in BOOLEAN /\ (k > 0) \in BOOLEAN /\ (some <=> k > 0)
        BY <3>5, <4>1, <4>2
      <4>4. some = (k > 0)
        BY ONLY <4>1, <4>3
      <4>5. QED
        BY <4>2, <4>4, Zenon
    <3>8. QED
      BY ONLY <3>2, <3>6, <3>7, Zenon
  <2>9. QED
    BY <2>3, <2>7, <2>8
<1>2. QED
  BY <1>1, LoopsInvariant, PTL

-----------------------------------------------------------------------------
(***************************************************************************)
(* GetMPESolution.  No instantiation weighs more at a node than the word   *)
(* the loop leaves there, as only one element of a decision node has it    *)
(* as a model.                                                             *)
(***************************************************************************)
LEMMA ProductsAreMonotone ==
  ASSUME NEW a \in Nat, NEW b \in Nat, NEW c \in Nat, NEW d \in Nat, NEW e \in Nat, a <= d, b <= e
  PROVE  a * b * c <= d * e * c
<1>1. PICK p \in Nat, q \in Nat : d = a + p /\ e = b + q
  <2>1. d - a \in Nat /\ e - b \in Nat /\ d = a + (d - a) /\ e = b + (e - b)
    OBVIOUS
  <2>2. QED
    BY <2>1
<1>2. d * e = a * b + (a * q + p * (b + q))
  BY ONLY <1>1, a \in Nat, b \in Nat
<1>3. PICK m \in Nat, r \in Nat : m = a * b /\ r = a * q + p * (b + q)
  <2>1. a * b \in Nat /\ a * q \in Nat /\ p * (b + q) \in Nat
    BY ONLY a \in Nat, b \in Nat, p \in Nat, q \in Nat, b + q \in Nat, Products
  <2>2. QED
    BY <2>1
<1>4. (m + r) * c = m * c + r * c /\ m * c \in Nat /\ r * c \in Nat
  BY Products
<1>5. QED
  BY ONLY <1>2, <1>3, <1>4

\* A decision node weighs what its elements weigh, of which only one has models.
LEMMA WeightOfDecision ==
  ASSUME NEW g \in Structures, NEW n \in DOMAIN g, g[n].type = "decision", NEW x
  PROVE  LET w == WeightsIn(g, x) IN
         \E f : /\ IsFiniteSet(DOMAIN g[n].primes)
                /\ w[n] = SumFunctionOnSet(f, DOMAIN g[n].primes)
                /\ \A i \in DOMAIN g[n].primes :
                     /\ f[i] = w[g[n].primes[i]] * w[g[n].subs[i]] * g[n].parameters[i]
                     /\ f[i] \in Nat
                     /\ f[i] > 0 => w[g[n].primes[i]] > 0 /\ w[g[n].subs[i]] > 0
<1>1. PICK w, leaf, I, f, p :
        /\ w = WeightsIn(g, x) /\ leaf = LeafIn(g, TrueOf(g), FalseOf(g), x)
        /\ I = DOMAIN g[n].primes /\ p = ParametersOf(g)
        /\ f = [i \in I |-> w[g[n].primes[i]] * w[g[n].subs[i]] * p[n][i]]
  BY Zenon
<1>2. w \in [DOMAIN g -> Nat] /\ w[n] = ValueAt(g, leaf, p, w, n)
  BY <1>1, WeightsInFacts DEF AreValues
<1>3. w[n] = SumFunctionOnSet(f, I)
  <2>1. ValueAt(g, leaf, p, w, n) = SumFunction(f)
    BY <1>1, Zenon DEF ValueAt
  <2>2. DOMAIN f = I
    BY <1>1, Zenon
  <2>3. QED
    BY <1>2, <2>1, <2>2, Zenon DEF SumFunction
<1>4. ASSUME NEW i \in I
      PROVE  /\ f[i] = w[g[n].primes[i]] * w[g[n].subs[i]] * g[n].parameters[i]
             /\ f[i] \in Nat
             /\ f[i] > 0 => w[g[n].primes[i]] > 0 /\ w[g[n].subs[i]] > 0
  <2>1. p[n][i] = g[n].parameters[i]
    BY <1>1 DEF ParametersOf
  <2>2. f[i] = w[g[n].primes[i]] * w[g[n].subs[i]] * g[n].parameters[i]
    BY <1>1, <2>1, Zenon
  <2>3. PICK a, b, c : a = w[g[n].primes[i]] /\ b = w[g[n].subs[i]] /\ c = g[n].parameters[i]
    BY Zenon
  <2>4. a \in Nat /\ b \in Nat /\ c \in Nat
    BY <1>1, <1>2, <2>3, GraphFacts, ParameterFacts
  <2>5. /\ a * b \in Nat /\ (a * b) * c \in Nat /\ ((a * b) * c > 0 <=> a * b > 0 /\ c > 0)
        /\ (a * b > 0 <=> a > 0 /\ b > 0)
    BY ONLY <2>4, Products
  <2>6. f[i] = (a * b) * c
    BY <2>2, <2>3, Zenon
  <2>7. f[i] \in Nat /\ (f[i] > 0 => a > 0 /\ b > 0)
    BY ONLY <2>5, <2>6
  <2>8. QED
    BY ONLY <2>2, <2>3, <2>7
<1>5. IsFiniteSet(I)
  BY <1>1, ElementsAreFinite
<1>6. \E h : /\ IsFiniteSet(I) /\ w[n] = SumFunctionOnSet(h, I)
             /\ \A i \in I : /\ h[i] = w[g[n].primes[i]] * w[g[n].subs[i]] * g[n].parameters[i]
                             /\ h[i] \in Nat
                             /\ h[i] > 0 => w[g[n].primes[i]] > 0 /\ w[g[n].subs[i]] > 0
  BY ONLY <1>3, <1>4, <1>5, Zenon
<1>7. QED
  BY <1>1, <1>6, Zenon

LEMMA WeighingIsModel ==
  ASSUME NEW g \in Structures, NEW x
  PROVE  \A n \in DOMAIN g : WeightsIn(g, x)[n] > 0 => ModelUnder(g, x)[n]
<1>1. PICK w, c, leaf : /\ w = WeightsIn(g, x) /\ c = ModelUnder(g, x)
                        /\ leaf = LeafIn(g, TrueOf(g), FalseOf(g), x)
  BY Zenon
<1> DEFINE T == {n \in DOMAIN g : w[n] > 0 /\ ~c[n]}
<1>2. SUFFICES ASSUME T # {} PROVE FALSE
  BY <1>1
<1>3. T \in SUBSET Nat
  BY GraphFacts
<1>4. PICK n \in T : \A m \in T : n <= m
  <2> HIDE DEF T
  <2>1. QED
    BY <1>2, <1>3, LeastOf
<1>5. n \in DOMAIN g /\ w[n] > 0 /\ ~c[n]
  OBVIOUS
<1>6. ASSUME NEW m \in DOMAIN g, m < n, w[m] > 0 PROVE c[m]
  <2>1. m \in Nat /\ n \in Nat /\ ~ n <= m
    BY <1>5, <1>6, GraphFacts
  <2>2. m \notin T
    <3> HIDE DEF T
    <3>1. QED
      BY <1>4, <2>1
  <2>3. QED
    BY <1>6, <2>2
<1>7. /\ w \in [DOMAIN g -> Nat] /\ w[n] = ValueAt(g, leaf, ParametersOf(g), w, n)
      /\ c[n] <=> IsModelAt(g, x, n, c)
  BY <1>1, <1>5, WeightsInFacts, ModelUnfolds DEF AreValues
<1>8. CASE g[n].type # "decision"
  <2>1. w[n] = leaf[n]
    BY <1>7, <1>8 DEF ValueAt
  <2>2. leaf[n] = IF g[n].variable \in x THEN TrueOf(g)[n] ELSE FalseOf(g)[n]
    BY <1>1, <1>5 DEF LeafIn
  <2>3. g[n].type \in {"literal", "top"} /\ g[n].sign \in BOOLEAN
    BY <1>5, <1>8, GraphFacts
  <2>4. g[n].type = "literal" => /\ TrueOf(g)[n] = IF g[n].sign THEN One ELSE 0
                                 /\ FalseOf(g)[n] = IF g[n].sign THEN 0 ELSE One
    BY <1>5 DEF TrueOf, FalseOf
  <2>5. QED
    BY ONLY <1>5, <1>7, <2>1, <2>2, <2>3, <2>4 DEF IsModelAt
<1>9. CASE g[n].type = "decision"
  <2>1. PICK f : /\ IsFiniteSet(DOMAIN g[n].primes)
                 /\ w[n] = SumFunctionOnSet(f, DOMAIN g[n].primes)
                 /\ \A i \in DOMAIN g[n].primes :
                      /\ f[i] \in Nat
                      /\ f[i] > 0 => w[g[n].primes[i]] > 0 /\ w[g[n].subs[i]] > 0
    BY <1>1, <1>5, <1>9, WeightOfDecision
  <2>2. \E i \in DOMAIN g[n].primes : f[i] > 0
    BY <1>5, <2>1, SumIsPositive
  <2>3. \E i \in DOMAIN g[n].primes : w[g[n].primes[i]] > 0 /\ w[g[n].subs[i]] > 0
    BY <2>1, <2>2
  <2>4. QED
    BY <1>5, <1>6, <1>7, <2>3, GraphFacts DEF IsModelAt
<1>10. QED
  BY <1>8, <1>9

AllInstantiations(g) == SUBSET {g[m].variable : m \in DOMAIN g}

\* No element weighs more than its node, and if none weighs more than a bound the node does not.
LEMMA WeightsAreBounded ==
  ASSUME NEW g \in Structures, NEW n \in DOMAIN g, g[n].type = "decision",
         NEW x \in AllInstantiations(g), NEW bound \in Nat,
         \A i \in DOMAIN g[n].primes :
           WeightsIn(g, x)[g[n].primes[i]] * WeightsIn(g, x)[g[n].subs[i]] * g[n].parameters[i] <= bound
  PROVE  /\ WeightsIn(g, x)[n] <= bound
         /\ \A i \in DOMAIN g[n].primes :
              WeightsIn(g, x)[g[n].primes[i]] * WeightsIn(g, x)[g[n].subs[i]] * g[n].parameters[i]
                <= WeightsIn(g, x)[n]
<1>1. PICK w, c, I : w = WeightsIn(g, x) /\ c = ModelUnder(g, x) /\ I = DOMAIN g[n].primes
  BY Zenon
<1>2. PICK f : /\ IsFiniteSet(I) /\ w[n] = SumFunctionOnSet(f, I)
               /\ \A i \in I : /\ f[i] = w[g[n].primes[i]] * w[g[n].subs[i]] * g[n].parameters[i]
                               /\ f[i] \in Nat
                               /\ f[i] > 0 => w[g[n].primes[i]] > 0 /\ w[g[n].subs[i]] > 0
  BY <1>1, WeightOfDecision
<1>3. \A m \in DOMAIN g : w[m] > 0 => c[m]
  BY <1>1, WeighingIsModel
<1>4. \A i, j \in I : c[g[n].primes[i]] /\ c[g[n].primes[j]] => i = j
  BY <1>1, DeterminismAssumption DEF IsDeterministic, AllInstantiations
<1>5. \A i, j \in I : f[i] > 0 /\ f[j] > 0 => i = j
  BY <1>1, <1>2, <1>3, <1>4, GraphFacts
<1>6. \A i \in I : f[i] <= bound
  BY <1>1, <1>2
<1>7. CASE \E i \in I : f[i] > 0
  <2>1. PICK i \in I : f[i] > 0
    BY <1>7
  <2>2. \A j \in I : j # i => f[j] = 0
    BY <1>2, <1>5, <2>1
  <2>3. w[n] = f[i] /\ f[i] \in Nat
    BY <1>2, <2>2, SumOfOne
  <2>4. \A j \in I : f[j] <= f[i]
    BY <2>2, <2>3
  <2>5. QED
    BY <1>1, <1>2, <1>6, <2>3, <2>4
<1>8. CASE ~ \E i \in I : f[i] > 0
  <2>1. \A i \in I : f[i] = 0
    BY <1>2, <1>8
  <2>2. w[n] = 0
    BY <1>2, <2>1, SumOfZeros
  <2>3. QED
    BY <1>1, <1>2, <2>1, <2>2
<1>9. QED
  BY <1>7, <1>8

\* What the loop of GetMPESolution leaves with a leaf.
LEMMA LeafWeights ==
  ASSUME structure \in Structures, NEW n \in Nodes, TypeOf(n) # "decision", NEW x
  PROVE  /\ MaximumOf(n)[1] \in Nat
         /\ WeightsIn(structure, x)[n] <= MaximumOf(n)[1]
         /\ (Variable(n) \in x <=> \/ TypeOf(n) = "literal" /\ structure[n].sign
                                   \/ TypeOf(n) = "top" /\ MaximumOf(n)[2] = 1) =>
              WeightsIn(structure, x)[n] = MaximumOf(n)[1]
<1>1. PICK w, g : w = WeightsIn(g, x) /\ g = structure
  BY Zenon
<1>2. w[n] = WeightAt(x, n, w)
  BY <1>1, WeightsInFacts, WeightIsValue DEF AreValues, Nodes
<1>3. /\ TypeOf(n) \in {"literal", "top"} /\ g[n].sign \in BOOLEAN /\ One \in Nat
      /\ TypeOf(n) = "top" => TrueParameter(n) \in Nat /\ FalseParameter(n) \in Nat
  BY <1>1, GraphFacts, ParameterFacts DEF Nodes, TypeOf, TrueParameter, FalseParameter, Parameters
<1>4. CASE TypeOf(n) = "literal"
  <2>1. w[n] = IF structure[n].sign = (Variable(n) \in x) THEN One ELSE 0
    BY <1>2, <1>4, Zenon DEF WeightAt
  <2>2. MaximumOf(n) = <<One, 0>>
    BY <1>4 DEF MaximumOf
  <2>3. QED
    BY <1>1, <1>3, <1>4, <2>1, <2>2
<1>5. CASE TypeOf(n) = "top"
  <2>1. w[n] = IF Variable(n) \in x THEN TrueParameter(n) ELSE FalseParameter(n)
    BY <1>2, <1>5 DEF WeightAt
  <2>2. MaximumOf(n) = IF TrueParameter(n) > FalseParameter(n)
                         THEN <<TrueParameter(n), 1>> ELSE <<FalseParameter(n), 0>>
    BY <1>5 DEF MaximumOf
  <2>3. QED
    BY <1>1, <1>3, <1>5, <2>1, <2>2
<1>6. QED
  BY <1>3, <1>4, <1>5

\* What it leaves with a decision node, where it has the bounds of the children.
LEMMA BestIsLargest ==
  ASSUME structure \in Structures, NEW n \in Nodes, TypeOf(n) = "decision",
         \A c \in ChildrenIn(structure, n) : user_data[c] \in Nat \X Nat
  PROVE  /\ Best(n) \in Elements(n) /\ MaximumOf(n) = <<Product(n, Best(n)), Best(n)>>
         /\ \A i \in Elements(n) : Product(n, i) \in Nat /\ Product(n, i) <= Product(n, Best(n))
<1>1. PICK k \in Nat : Elements(n) = 1..k /\ k # 0
  BY NodeFacts
<1>2. ASSUME NEW i \in Elements(n) PROVE Product(n, i) \in Nat
  <2>1. /\ user_data[Primes(n)[i]] \in Nat \X Nat /\ user_data[Subs(n)[i]] \in Nat \X Nat
        /\ Parameters(n)[i] \in Nat
    BY NodeFacts
  <2>2. PICK a, b, c \in Nat : /\ user_data[Primes(n)[i]][1] = a /\ user_data[Subs(n)[i]][1] = b
                               /\ Parameters(n)[i] = c
    BY <2>1
  <2>3. QED
    BY <2>2, ProductOfThree DEF Product
<1>3. PICK f : f = [i \in 1..k |-> Product(n, i)]
  BY Zenon
<1>4. f \in [1..k -> Nat]
  BY <1>1, <1>2, <1>3
<1>5. \E i \in 1..k : /\ \A j \in 1..k : f[j] <= f[i]
                      /\ \A j \in 1..k : j < i => f[j] < f[i]
  BY <1>1, <1>4, FirstLargest
<1>6. \E i \in Elements(n) : /\ \A j \in Elements(n) : Product(n, j) <= Product(n, i)
                             /\ \A j \in Elements(n) : j < i => Product(n, j) < Product(n, i)
  BY <1>1, <1>3, <1>5
<1>7. /\ Best(n) \in Elements(n)
      /\ \A j \in Elements(n) : Product(n, j) <= Product(n, Best(n))
  BY <1>6, Zenon DEF Best
<1>8. MaximumOf(n) = <<Product(n, Best(n)), Best(n)>>
  BY DEF MaximumOf
<1>9. QED
  BY <1>2, <1>7, <1>8

\* Bounds from those of the children.
LEMMA MaximumIsBound ==
  ASSUME structure \in Structures, NEW n \in Nodes, NEW x \in AllInstantiations(structure),
         \A c \in ChildrenIn(structure, n) :
           user_data[c] \in Nat \X Nat /\ WeightsIn(structure, x)[c] <= user_data[c][1]
  PROVE  /\ MaximumOf(n)[1] \in Nat /\ WeightsIn(structure, x)[n] <= MaximumOf(n)[1]
         /\ TypeOf(n) = "decision" =>
              LET best == MaximumOf(n)[2] IN
              (\A c \in {Primes(n)[best], Subs(n)[best]} : WeightsIn(structure, x)[c] = user_data[c][1])
                => WeightsIn(structure, x)[n] = MaximumOf(n)[1]
<1>1. PICK g, w, I : g = structure /\ w = WeightsIn(g, x) /\ I = DOMAIN g[n].primes
  BY Zenon
<1>2. CASE TypeOf(n) # "decision"
  BY <1>2, LeafWeights
<1>3. CASE TypeOf(n) = "decision"
  <2>1. PICK b, m : b = Best(n) /\ m = Product(n, b)
    BY Zenon
  <2>2. /\ b \in Elements(n) /\ MaximumOf(n) = <<m, b>> /\ m \in Nat
        /\ \A i \in Elements(n) : Product(n, i) \in Nat /\ Product(n, i) <= m
    BY <1>3, <2>1, BestIsLargest
  <2>3. ASSUME NEW i \in I
        PROVE  /\ w[g[n].primes[i]] * w[g[n].subs[i]] * g[n].parameters[i] <= Product(n, i)
               /\ (\A c \in {Primes(n)[i], Subs(n)[i]} : w[c] = user_data[c][1]) =>
                    w[g[n].primes[i]] * w[g[n].subs[i]] * g[n].parameters[i] = Product(n, i)
    <3>1. PICK p, s, r : p = g[n].primes[i] /\ s = g[n].subs[i] /\ r = g[n].parameters[i]
      BY Zenon
    <3>2. /\ p \in ChildrenIn(g, n) /\ s \in ChildrenIn(g, n) /\ p \in DOMAIN g /\ s \in DOMAIN g
          /\ r \in Nat /\ w \in [DOMAIN g -> Nat]
      BY <1>1, <1>3, <3>1, GraphFacts, ParameterFacts, WeightsInFacts DEF TypeOf, Nodes
    <3>3. PICK k, l : k = user_data[p][1] /\ l = user_data[s][1]
      BY Zenon
    <3>4. k \in Nat /\ l \in Nat /\ w[p] <= k /\ w[s] <= l /\ w[p] \in Nat /\ w[s] \in Nat
      BY <1>1, <3>2, <3>3
    <3>5. w[p] * w[s] * r <= k * l * r
      BY ONLY <3>2, <3>4, ProductsAreMonotone
    <3>6. Product(n, i) = k * l * r
      BY <1>1, <3>1, <3>3, Zenon DEF Product, Primes, Subs, Parameters
    <3>7. (\A c \in {Primes(n)[i], Subs(n)[i]} : w[c] = user_data[c][1]) => w[p] = k /\ w[s] = l
      BY <1>1, <3>1, <3>3, Zenon DEF Primes, Subs
    <3>8. QED
      BY ONLY <3>1, <3>5, <3>6, <3>7
  <2>4. I = Elements(n) /\ n \in DOMAIN g /\ g \in Structures /\ g[n].type = "decision"
    BY <1>1, <1>3 DEF Elements, Primes, Nodes, TypeOf
  <2>5. /\ w[n] \in Nat
        /\ \A i \in I : w[g[n].primes[i]] * w[g[n].subs[i]] * g[n].parameters[i] \in Nat
    <3>1. w \in [DOMAIN g -> Nat]
      BY <1>1, <2>4, WeightsInFacts
    <3>2. ASSUME NEW i \in I PROVE w[g[n].primes[i]] * w[g[n].subs[i]] * g[n].parameters[i] \in Nat
      <4>1. w[g[n].primes[i]] \in Nat /\ w[g[n].subs[i]] \in Nat /\ g[n].parameters[i] \in Nat
        BY <1>1, <2>4, <3>1, GraphFacts, ParameterFacts
      <4>2. QED
        BY ONLY <4>1, ProductOfThree
    <3>3. QED
      BY <2>4, <3>1, <3>2
  <2>6. \A i \in I : w[g[n].primes[i]] * w[g[n].subs[i]] * g[n].parameters[i] <= m
    <3>1. ASSUME NEW i \in I PROVE w[g[n].primes[i]] * w[g[n].subs[i]] * g[n].parameters[i] <= m
      <4>1. PICK e, f : e = w[g[n].primes[i]] * w[g[n].subs[i]] * g[n].parameters[i] /\ f = Product(n, i)
        BY Zenon
      <4>2. e \in Nat /\ f \in Nat /\ e <= f /\ f <= m
        BY <2>2, <2>3, <2>4, <2>5, <4>1
      <4>3. e <= m
        BY ONLY <2>2, <4>2
      <4>4. QED
        BY <4>1, <4>3
    <3>2. QED
      BY <3>1
  <2>7. /\ w[n] <= m
        /\ \A i \in I : w[g[n].primes[i]] * w[g[n].subs[i]] * g[n].parameters[i] <= w[n]
    BY <1>1, <2>2, <2>4, <2>6, WeightsAreBounded
  <2>8. (\A c \in {Primes(n)[b], Subs(n)[b]} : w[c] = user_data[c][1]) => m <= w[n]
    <3>1. b \in I
      BY <2>2, <2>4
    <3>2. QED
      BY <2>1, <2>3, <2>7, <3>1
  <2>9. (\A c \in {Primes(n)[b], Subs(n)[b]} : w[c] = user_data[c][1]) => w[n] = m
    BY ONLY <2>2, <2>5, <2>7, <2>8
  <2>10. QED
    BY <1>1, <2>2, <2>7, <2>9
<1>4. QED
  BY <1>2, <1>3

-----------------------------------------------------------------------------
(***************************************************************************)
(* The nodes still to follow.  They are about different variables, and     *)
(* whatever is best in each of them makes, with the variables already set, *)
(* what is best in the root.                                               *)
(***************************************************************************)
UnderAll(g, q) == UNION {VariablesUnder(g, q[i]) : i \in DOMAIN q}
AreApart(g, q) ==
  \A i, j \in DOMAIN q : i # j => VariablesUnder(g, q[i]) \cap VariablesUnder(g, q[j]) = {}
IsBestAt(g, values, n, x) == WeightsIn(g, x)[n] = values[n][1]
Lead(g, values, root, q, bits) ==
  \A y \in SUBSET UnderAll(g, q) :
    (\A i \in DOMAIN q : IsBestAt(g, values, q[i], y)) => IsBestAt(g, values, root, bits \cup y)

LEMMA TailFacts ==
  ASSUME NEW X, NEW q \in Seq(X), q # <<>>
  PROVE  /\ Len(q) \in Nat \ {0} /\ DOMAIN q = 1..Len(q) /\ q[1] = Head(q)
         /\ Tail(q) \in Seq(X) /\ Len(Tail(q)) = Len(q) - 1 /\ DOMAIN Tail(q) = 1..Len(q) - 1
         /\ \A i \in 1..Len(q) - 1 : Tail(q)[i] = q[i + 1]
         /\ \A a, b \in X : /\ Tail(q) \o <<a, b>> \in Seq(X)
                            /\ DOMAIN (Tail(q) \o <<a, b>>) = 1..Len(q) + 1
                            /\ \A i \in 1..Len(q) + 1 :
                                 (Tail(q) \o <<a, b>>)[i] =
                                   IF i < Len(q) THEN q[i + 1] ELSE IF i = Len(q) THEN a ELSE b
<1>1. /\ Len(q) \in Nat \ {0} /\ DOMAIN q = 1..Len(q) /\ q[1] = Head(q)
      /\ Tail(q) \in Seq(X) /\ Len(Tail(q)) = Len(q) - 1 /\ DOMAIN Tail(q) = 1..Len(q) - 1
      /\ \A i \in 1..Len(q) - 1 : Tail(q)[i] = q[i + 1]
  OBVIOUS
<1>2. ASSUME NEW a \in X, NEW b \in X
      PROVE  /\ Tail(q) \o <<a, b>> \in Seq(X)
             /\ DOMAIN (Tail(q) \o <<a, b>>) = 1..Len(q) + 1
             /\ \A i \in 1..Len(q) + 1 :
                  (Tail(q) \o <<a, b>>)[i] =
                    IF i < Len(q) THEN q[i + 1] ELSE IF i = Len(q) THEN a ELSE b
  <2>1. PICK t, p : t = Tail(q) /\ p = <<a, b>>
    BY Zenon
  <2>2. /\ p \in Seq(X) /\ Len(p) = 2 /\ p[1] = a /\ p[2] = b
        /\ t \in Seq(X) /\ Len(t) = Len(q) - 1 /\ \A i \in 1..Len(q) - 1 : t[i] = q[i + 1]
    BY <1>1, <2>1
  <2>3. /\ t \o p \in Seq(X) /\ Len(t \o p) = Len(t) + Len(p)
        /\ \A i \in 1..Len(t) + Len(p) : (t \o p)[i] = IF i <= Len(t) THEN t[i] ELSE p[i - Len(t)]
    BY ONLY <2>2, ConcatProperties
  <2>4. QED
    BY <1>1, <2>1, <2>2, <2>3
<1>3. QED
  BY ONLY <1>1, <1>2

LEMMA VariablesAreOfNodes ==
  ASSUME NEW g, NEW n
  PROVE  VariablesUnder(g, n) \in AllInstantiations(g)
BY DEF VariablesUnder, AllInstantiations, Below

LEMMA WeightsAreLocal ==
  ASSUME NEW g \in Structures, NEW n \in DOMAIN g, NEW x, NEW y,
         \A v \in VariablesUnder(g, n) : v \in x <=> v \in y
  PROVE  WeightsIn(g, x)[n] = WeightsIn(g, y)[n]
<1>1. PICK t, f, weight : t = TrueOf(g) /\ f = FalseOf(g) /\ weight = ParametersOf(g)
  BY Zenon
<1>2. AreFactors(g, t, f, weight) /\ AreSameUnder(g, n, x, y)
  BY <1>1, FactorsAreNumbers DEF AreSameUnder
<1>3. ValuesIn(g, t, f, weight, x)[n] = ValuesIn(g, t, f, weight, y)[n]
  BY <1>2, ValuesAreLocal
<1>4. QED
  BY <1>1, <1>3, Zenon DEF WeightsIn

LEMMA LeadPastLeaf ==
  ASSUME NEW g \in Structures, NEW values, NEW root, NEW q \in Seq(DOMAIN g), q # <<>>,
         NEW n, n = Head(q), g[n].type # "decision", NEW bits,
         NEW d, d = {} \/ d = {g[n].variable},
         \A x : (g[n].variable \in x <=> d # {}) => IsBestAt(g, values, n, x),
         AreApart(g, q), Lead(g, values, root, q, bits)
  PROVE  AreApart(g, Tail(q)) /\ Lead(g, values, root, Tail(q), bits \cup d)
<1>1. PICK k, t, v : k = Len(q) /\ t = Tail(q) /\ v = g[n].variable
  BY Zenon
<1>2. /\ k \in Nat \ {0} /\ DOMAIN q = 1..k /\ q[1] = n
      /\ DOMAIN t = 1..k - 1 /\ \A i \in 1..k - 1 : t[i] = q[i + 1]
  BY <1>1, TailFacts
<1>3. n \in DOMAIN g /\ VariablesUnder(g, n) = {v}
  <2>1. n \in DOMAIN g
    BY <1>2
  <2>2. QED
    BY <1>1, <2>1, VariablesOfNode
<1>4. AreApart(g, t)
  <2>1. ASSUME NEW i \in 1..k - 1, NEW j \in 1..k - 1, i # j
        PROVE  VariablesUnder(g, t[i]) \cap VariablesUnder(g, t[j]) = {}
    <3>1. i + 1 \in DOMAIN q /\ j + 1 \in DOMAIN q /\ i + 1 # j + 1
      BY <1>2, <2>1
    <3>2. t[i] = q[i + 1] /\ t[j] = q[j + 1]
      BY <1>2
    <3>3. QED
      BY <3>1, <3>2 DEF AreApart
  <2>2. QED
    BY <1>2, <2>1 DEF AreApart
<1>5. \A i \in 2..k : v \notin VariablesUnder(g, q[i])
  BY <1>2, <1>3 DEF AreApart
<1>6. ASSUME NEW y \in SUBSET UnderAll(g, t), \A i \in DOMAIN t : IsBestAt(g, values, t[i], y)
      PROVE  IsBestAt(g, values, root, (bits \cup d) \cup y)
  <2>1. v \notin y
    <3>1. \A i \in DOMAIN t : v \notin VariablesUnder(g, t[i])
      BY <1>2, <1>5
    <3>2. QED
      BY <3>1 DEF UnderAll
  <2>2. PICK z : z = d \cup y
    BY Zenon
  <2>3. z \in SUBSET UnderAll(g, q)
    <3>1. v \in UnderAll(g, q)
      BY <1>2, <1>3 DEF UnderAll
    <3>2. UnderAll(g, t) \subseteq UnderAll(g, q)
      BY <1>2 DEF UnderAll
    <3>3. QED
      BY <1>1, <2>2, <3>1, <3>2
  <2>4. IsBestAt(g, values, n, z)
    BY <1>1, <2>1, <2>2
  <2>5. ASSUME NEW i \in 2..k PROVE IsBestAt(g, values, q[i], z)
    <3>1. i - 1 \in DOMAIN t /\ t[i - 1] = q[i] /\ q[i] \in DOMAIN g
      BY <1>2
    <3>2. IsBestAt(g, values, q[i], y)
      BY <1>6, <3>1
    <3>3. \A u \in VariablesUnder(g, q[i]) : u \in z <=> u \in y
      BY <1>1, <1>5, <2>2
    <3>4. WeightsIn(g, z)[q[i]] = WeightsIn(g, y)[q[i]]
      BY <3>1, <3>3, WeightsAreLocal
    <3>5. QED
      BY <3>2, <3>4 DEF IsBestAt
  <2>6. \A i \in DOMAIN q : IsBestAt(g, values, q[i], z)
    <3>1. \A i \in 1..k : i = 1 \/ i \in 2..k
      BY <1>2
    <3>2. QED
      BY <1>2, <2>4, <2>5, <3>1
  <2>7. IsBestAt(g, values, root, bits \cup z)
    BY <2>3, <2>6 DEF Lead
  <2>8. bits \cup z = (bits \cup d) \cup y
    BY <2>2
  <2>9. QED
    BY <2>7, <2>8
<1>7. Lead(g, values, root, t, bits \cup d)
  BY ONLY <1>6 DEF Lead
<1>8. QED
  BY <1>1, <1>4, <1>7

LEMMA LeadPastDecision ==
  ASSUME NEW g \in Structures, NEW values, NEW root, NEW q \in Seq(DOMAIN g), q # <<>>,
         NEW n, n = Head(q), g[n].type = "decision", NEW bits,
         NEW i \in DOMAIN g[n].primes, NEW a, NEW b, a = g[n].primes[i], b = g[n].subs[i],
         \A x \in AllInstantiations(g) :
           IsBestAt(g, values, a, x) /\ IsBestAt(g, values, b, x) => IsBestAt(g, values, n, x),
         AreApart(g, q), Lead(g, values, root, q, bits)
  PROVE  /\ AreApart(g, Tail(q) \o <<a, b>>)
         /\ Lead(g, values, root, Tail(q) \o <<a, b>>, bits)
<1>1. PICK k, t : k = Len(q) /\ t = Tail(q) \o <<a, b>>
  BY Zenon
<1>2. n \in DOMAIN g /\ a \in DOMAIN g /\ b \in DOMAIN g
  <2>1. n \in DOMAIN g
    BY TailFacts
  <2>2. QED
    BY <2>1, GraphFacts
<1>3. /\ k \in Nat \ {0} /\ DOMAIN q = 1..k /\ q[1] = n
      /\ DOMAIN t = 1..k + 1
      /\ \A j \in 1..k + 1 : t[j] = IF j < k THEN q[j + 1] ELSE IF j = k THEN a ELSE b
  BY <1>1, <1>2, TailFacts
<1>4. PICK P, S : /\ VariablesUnder(g, n) = P \cup S /\ P \cap S = {}
                  /\ VariablesUnder(g, a) = P /\ VariablesUnder(g, b) = S
  <2>1. PICK P, S : /\ VariablesUnder(g, n) = P \cup S /\ P \cap S = {}
                    /\ \A j \in DOMAIN g[n].primes : /\ VariablesUnder(g, g[n].primes[j]) = P
                                                     /\ VariablesUnder(g, g[n].subs[j]) = S
    BY <1>2, VariablesOfNode
  <2>2. VariablesUnder(g, a) = P /\ VariablesUnder(g, b) = S
    BY <2>1, Zenon
  <2>3. QED
    BY <2>1, <2>2
<1>5. \A j \in 2..k : VariablesUnder(g, q[j]) \cap (P \cup S) = {}
  BY <1>3, <1>4 DEF AreApart
<1>6. \A j \in 1..k - 1 : t[j] = q[j + 1] /\ j + 1 \in 2..k
  BY <1>3
<1>7. t[k] = a /\ t[k + 1] = b /\ \A j \in 1..k + 1 : j \in 1..k - 1 \/ j = k \/ j = k + 1
  BY <1>3
<1>8. AreApart(g, t)
  <2>1. ASSUME NEW j \in 1..k + 1, NEW l \in 1..k + 1, j # l
        PROVE  VariablesUnder(g, t[j]) \cap VariablesUnder(g, t[l]) = {}
    <3>1. CASE j \in 1..k - 1 /\ l \in 1..k - 1
      <4>1. j + 1 # l + 1 /\ j + 1 \in DOMAIN q /\ l + 1 \in DOMAIN q
        BY <1>3, <2>1, <3>1
      <4>2. QED
        BY <1>6, <3>1, <4>1 DEF AreApart
    <3>2. CASE j \in 1..k - 1 /\ l \notin 1..k - 1
      <4>1. VariablesUnder(g, t[l]) \subseteq P \cup S
        BY <1>4, <1>7, <2>1, <3>2
      <4>2. QED
        BY <1>5, <1>6, <3>2, <4>1
    <3>3. CASE l \in 1..k - 1 /\ j \notin 1..k - 1
      <4>1. VariablesUnder(g, t[j]) \subseteq P \cup S
        BY <1>4, <1>7, <2>1, <3>3
      <4>2. QED
        BY <1>5, <1>6, <3>3, <4>1
    <3>4. CASE j \notin 1..k - 1 /\ l \notin 1..k - 1
      BY <1>4, <1>7, <2>1, <3>4
    <3>5. QED
      BY <3>1, <3>2, <3>3, <3>4
  <2>2. QED
    BY <1>3, <2>1 DEF AreApart
<1>9. UnderAll(g, t) \subseteq UnderAll(g, q)
  <2>1. ASSUME NEW j \in 1..k + 1 PROVE VariablesUnder(g, t[j]) \subseteq UnderAll(g, q)
    <3>1. CASE j \in 1..k - 1
      <4>1. j + 1 \in DOMAIN q /\ t[j] = q[j + 1]
        BY <1>3, <1>6, <3>1
      <4>2. QED
        BY <4>1 DEF UnderAll
    <3>2. CASE j \notin 1..k - 1
      <4>1. VariablesUnder(g, t[j]) \subseteq VariablesUnder(g, n)
        BY <1>4, <1>7, <2>1, <3>2
      <4>2. 1 \in DOMAIN q /\ q[1] = n
        BY <1>3
      <4>3. QED
        BY <4>1, <4>2 DEF UnderAll
    <3>3. QED
      BY <3>1, <3>2
  <2>2. QED
    BY <1>3, <2>1 DEF UnderAll
<1>10. UnderAll(g, q) \in AllInstantiations(g)
  BY VariablesAreOfNodes DEF UnderAll, AllInstantiations
<1>11. ASSUME NEW y \in SUBSET UnderAll(g, t), \A j \in DOMAIN t : IsBestAt(g, values, t[j], y)
       PROVE  IsBestAt(g, values, root, bits \cup y)
  <2>1. y \in AllInstantiations(g) /\ y \in SUBSET UnderAll(g, q)
    BY <1>9, <1>10 DEF AllInstantiations
  <2>2. IsBestAt(g, values, n, y)
    <3>1. k \in DOMAIN t /\ k + 1 \in DOMAIN t
      BY <1>3
    <3>2. QED
      BY <1>7, <1>11, <2>1, <3>1
  <2>3. ASSUME NEW j \in 2..k PROVE IsBestAt(g, values, q[j], y)
    <3>1. j - 1 \in DOMAIN t /\ t[j - 1] = q[j]
      BY <1>3
    <3>2. QED
      BY <1>11, <3>1
  <2>4. \A j \in DOMAIN q : IsBestAt(g, values, q[j], y)
    <3>1. \A j \in 1..k : j = 1 \/ j \in 2..k
      BY <1>3
    <3>2. QED
      BY <1>3, <2>2, <2>3, <3>1
  <2>5. QED
    BY <2>1, <2>4 DEF Lead
<1>12. Lead(g, values, root, t, bits)
  BY ONLY <1>11 DEF Lead
<1>13. QED
  BY <1>1, <1>8, <1>12

-----------------------------------------------------------------------------
(***************************************************************************)
(* What GetMPESolution has found so far, from the leaves up to the root    *)
(* and then from the root along the best elements.                         *)
(***************************************************************************)
IsChosen(g, values, n) == \/ g[n].type = "literal" /\ g[n].sign
                          \/ g[n].type = "top" /\ values[n][2] = 1
IsMaximum(g, values, n) ==
  /\ \A x \in AllInstantiations(g) : WeightsIn(g, x)[n] <= values[n][1]
  /\ g[n].type # "decision" =>
       \A x : (g[n].variable \in x <=> IsChosen(g, values, n)) => IsBestAt(g, values, n, x)
  /\ g[n].type = "decision" =>
       \A x \in AllInstantiations(g) :
         /\ IsBestAt(g, values, g[n].primes[values[n][2]], x)
         /\ IsBestAt(g, values, g[n].subs[values[n][2]], x)
         => IsBestAt(g, values, n, x)

MaximaAreRight == \A n \in SetNodes : IsMaximum(structure, user_data, n)

SolutionSoFar ==
  /\ query = "GetMPESolution" /\ pass \in {"up", "extract"} => MaximaAreRight
  /\ pass = "extract" =>
       /\ answer = [prob |-> user_data[Root][1], true |-> answer.true]
       /\ AreApart(structure, node_queue)
       /\ Lead(structure, user_data, Root, node_queue, answer.true)
  /\ query = "GetMPESolution" /\ pass \in {"reset", "return"} =>
       /\ WeightsIn(structure, answer.true)[Root] = answer.prob
       /\ \A x \in AllInstantiations(structure) : WeightsIn(structure, x)[Root] <= answer.prob

LEMMA MaximumIsLocal ==
  ASSUME NEW g \in Structures, NEW n \in DOMAIN g, NEW values, NEW old, values[n] = old[n],
         g[n].type = "decision" => values[n][2] \in DOMAIN g[n].primes,
         \A c \in ChildrenIn(g, n) : values[c] = old[c], IsMaximum(g, old, n)
  PROVE  IsMaximum(g, values, n)
<1>1. g[n].type = "decision" => /\ values[g[n].primes[values[n][2]]] = old[g[n].primes[values[n][2]]]
                                /\ values[g[n].subs[values[n][2]]] = old[g[n].subs[values[n][2]]]
  BY GraphFacts
<1>2. QED
  BY <1>1, Zenon DEF IsMaximum, IsChosen, IsBestAt

LEMMA FromOnIsClosed ==
  ASSUME SInv, Serialized, NEW p \in Nat
  PROVE  \A n \in FromOn(p) : ChildrenIn(structure, n) \subseteq FromOn(p)
<1>1. SUFFICES ASSUME NEW n \in FromOn(p) PROVE ChildrenIn(structure, n) \subseteq FromOn(p)
  OBVIOUS
<1>2. PICK i \in DOMAIN result : n = result[i] /\ i >= p
  BY DEF FromOn
<1>3. ChildrenIn(structure, n) \subseteq FromOn(i + 1) /\ DOMAIN result \subseteq Nat
  BY <1>2, ChildrenAreLater, ListFacts
<1>4. FromOn(i + 1) \subseteq FromOn(p)
  BY <1>2, <1>3 DEF FromOn
<1>5. QED
  BY <1>3, <1>4

LEMMA MaximizeKeepsSolution ==
  ASSUME QInv, SolutionSoFar, MaximizeNode
  PROVE  SolutionSoFar'
<1>1. /\ UNCHANGED <<serializerVars, query, pass>> /\ pass = "up" /\ query = "GetMPESolution"
      /\ position > 0 /\ position' = position - 1
      /\ user_data' = [user_data EXCEPT ![At] = MaximumOf(At)]
  BY DEF MaximizeNode, Up
<1>2. /\ Nodes' = Nodes /\ At \in Nodes /\ structure' = structure /\ structure \in Structures
      /\ FromOn(position + 1)' = FromOn(position + 1) \cup {At}
      /\ ChildrenIn(structure, At) \subseteq FromOn(position + 1)
  BY <1>1, UpFacts DEF serializerVars
<1>3. /\ SetNodes = FromOn(position + 1) /\ SetNodes' = SetNodes \cup {At}
      /\ DOMAIN user_data = Nodes /\ SetNodes \subseteq Nodes
      /\ \A n \in SetNodes : /\ user_data[n] \in Nat \X Nat
                             /\ TypeOf(n) = "decision" => user_data[n][2] \in Elements(n)
  <2>1. SetNodes = FromOn(position + 1) /\ SetNodes' = SetNodes \cup {At}
    BY <1>1, <1>2 DEF SetNodes
  <2>2. SetNodes \subseteq Nodes
    BY <2>1, PlaceFacts
  <2>3. QED
    BY <1>1, <2>1, <2>2 DEF QInv, ScratchFollowsPass, ScratchIsTyped
<1>4. \A n \in SetNodes : IsMaximum(structure, user_data, n)
  BY <1>1 DEF SolutionSoFar, MaximaAreRight
<1>5. At \notin SetNodes /\ \A n \in SetNodes : ChildrenIn(structure, n) \subseteq SetNodes
  <2>1. Serialized /\ SInv /\ position \in Nat /\ position <= Len(result)
    BY <1>1 DEF QInv, Control
  <2>2. FromOn(position + 1) = FromOn(position) \ {At}
    BY <1>1, <2>1, PlaceFacts
  <2>3. QED
    BY <1>3, <2>1, <2>2, FromOnIsClosed
<1>6. PICK g, a, old, values : g = structure /\ a = At /\ old = user_data /\ values = user_data'
  BY Zenon
<1>7. /\ values[a] = MaximumOf(a)
      /\ \A n \in SetNodes : values[n] = old[n] /\ \A c \in ChildrenIn(g, n) : values[c] = old[c]
      /\ \A c \in ChildrenIn(g, a) : values[c] = old[c] /\ c \in SetNodes
  <2>1. \A n \in Nodes : values[n] = IF n = At THEN MaximumOf(At) ELSE old[n]
    BY <1>1, <1>3, <1>6
  <2>2. QED
    BY <1>2, <1>3, <1>5, <1>6, <2>1
<1>8. \A n \in SetNodes : IsMaximum(g, values, n)
  <2>1. ASSUME NEW n \in SetNodes PROVE IsMaximum(g, values, n)
    <3>1. g \in Structures /\ n \in DOMAIN g /\ IsMaximum(g, old, n)
      BY <1>2, <1>3, <1>4, <1>6 DEF Nodes
    <3>2. g[n].type = "decision" => values[n][2] \in DOMAIN g[n].primes
      BY <1>3, <1>6, <1>7 DEF TypeOf, Elements, Primes
    <3>3. QED
      BY <1>7, <3>1, <3>2, MaximumIsLocal
  <2>2. QED
    BY <2>1
<1>9. IsMaximum(g, values, a)
  <2>1. \A c \in ChildrenIn(g, a) :
          /\ old[c] \in Nat \X Nat
          /\ \A x \in AllInstantiations(g) : WeightsIn(g, x)[c] <= old[c][1]
    BY <1>3, <1>4, <1>6, <1>7 DEF IsMaximum
  <2>2. /\ MaximumOf(a) \in Nat \X Nat
        /\ TypeOf(a) = "decision" => MaximumOf(a)[2] \in Elements(a)
    BY <1>2, <1>6, <2>1, MaximumIsTyped
  <2>3. PICK m : m = MaximumOf(a)
    BY Zenon
  <2>4. ASSUME NEW x \in AllInstantiations(g)
        PROVE  /\ WeightsIn(g, x)[a] <= m[1]
               /\ g[a].type = "decision" =>
                    ((\A c \in {g[a].primes[m[2]], g[a].subs[m[2]]} : WeightsIn(g, x)[c] = old[c][1])
                      => WeightsIn(g, x)[a] = m[1])
    <3>1. structure \in Structures /\ a \in Nodes /\ x \in AllInstantiations(structure)
      BY <1>2, <1>6
    <3>2. \A c \in ChildrenIn(structure, a) :
            user_data[c] \in Nat \X Nat /\ WeightsIn(structure, x)[c] <= user_data[c][1]
      BY <1>6, <2>1
    <3>3. /\ WeightsIn(structure, x)[a] <= MaximumOf(a)[1]
          /\ TypeOf(a) = "decision" =>
               LET best == MaximumOf(a)[2] IN
               (\A c \in {Primes(a)[best], Subs(a)[best]} : WeightsIn(structure, x)[c] = user_data[c][1])
                 => WeightsIn(structure, x)[a] = MaximumOf(a)[1]
      BY <3>1, <3>2, MaximumIsBound
    <3>4. QED
      BY <1>6, <2>3, <3>3, Zenon DEF TypeOf, Primes, Subs
  <2>5. g[a].type # "decision" =>
          \A x : (g[a].variable \in x <=> IsChosen(g, values, a)) => IsBestAt(g, values, a, x)
    <3>1. ASSUME g[a].type # "decision", NEW x, g[a].variable \in x <=> IsChosen(g, values, a)
          PROVE  IsBestAt(g, values, a, x)
      <4>1. structure \in Structures /\ a \in Nodes /\ TypeOf(a) # "decision"
        BY <1>2, <1>6, <3>1 DEF TypeOf
      <4>2. (Variable(a) \in x <=> \/ TypeOf(a) = "literal" /\ structure[a].sign
                                   \/ TypeOf(a) = "top" /\ MaximumOf(a)[2] = 1)
        BY <1>6, <1>7, <3>1 DEF IsChosen, TypeOf, Variable
      <4>3. WeightsIn(structure, x)[a] = MaximumOf(a)[1]
        BY <4>1, <4>2, LeafWeights
      <4>4. QED
        BY <1>6, <1>7, <4>3 DEF IsBestAt
    <3>2. QED
      BY <3>1
  <2>6. g[a].type = "decision" =>
          \A x \in AllInstantiations(g) :
            /\ IsBestAt(g, values, g[a].primes[values[a][2]], x)
            /\ IsBestAt(g, values, g[a].subs[values[a][2]], x)
            => IsBestAt(g, values, a, x)
    <3>1. ASSUME g[a].type = "decision", NEW x \in AllInstantiations(g),
                 IsBestAt(g, values, g[a].primes[values[a][2]], x),
                 IsBestAt(g, values, g[a].subs[values[a][2]], x)
          PROVE  IsBestAt(g, values, a, x)
      <4>1. m[2] \in DOMAIN g[a].primes /\ a \in DOMAIN g /\ g \in Structures
        BY <1>2, <1>6, <2>2, <2>3, <3>1 DEF TypeOf, Elements, Primes, Nodes
      <4>2. g[a].primes[m[2]] \in ChildrenIn(g, a) /\ g[a].subs[m[2]] \in ChildrenIn(g, a)
        BY <4>1, GraphFacts
      <4>3. \A c \in {g[a].primes[m[2]], g[a].subs[m[2]]} : WeightsIn(g, x)[c] = old[c][1]
        BY <1>7, <2>3, <3>1, <4>2 DEF IsBestAt
      <4>4. QED
        BY <1>7, <2>3, <2>4, <3>1, <4>3 DEF IsBestAt
    <3>2. QED
      BY <3>1
  <2>7. \A x \in AllInstantiations(g) : WeightsIn(g, x)[a] <= values[a][1]
    BY <1>7, <2>3, <2>4
  <2>8. QED
    BY <2>5, <2>6, <2>7 DEF IsMaximum
<1>10. MaximaAreRight'
  BY <1>2, <1>3, <1>6, <1>8, <1>9 DEF MaximaAreRight
<1>11. QED
  BY <1>1, <1>10 DEF SolutionSoFar

LEMMA EndUpKeepsSolution ==
  ASSUME QInv, SolutionSoFar, EndUp
  PROVE  SolutionSoFar'
<1>1. /\ UNCHANGED <<serializerVars, query, user_data>> /\ pass = "up" /\ position = 0
      /\ query = "GetMPESolution" => /\ answer' = [prob |-> user_data[roots[1]][1], true |-> {}]
                                     /\ node_queue' = <<roots[1]>>
                                     /\ pass' = "extract"
      /\ pass' = "extract" => query = "GetMPESolution"
  <2>1. query \in Queries /\ query # "GetMarginals" /\ pass = "up"
    BY DEF QInv, Control, EndUp
  <2>2. QED
    BY <2>1 DEF EndUp, Enter, UsesMap, Queries, nodeVars
<1>2. SUFFICES ASSUME query = "GetMPESolution" PROVE SolutionSoFar'
  BY <1>1 DEF SolutionSoFar
<1>3. structure' = structure /\ roots' = roots /\ result' = result
  BY <1>1 DEF serializerVars
<1>4. SetNodes' = SetNodes
  <2>1. SetNodes = FromOn(position + 1) /\ FromOn(position + 1) = FromOn(1)
    BY <1>1, <1>2 DEF SetNodes
  <2>2. SetNodes' = Range(result)
    BY <1>1, <1>2, <1>3 DEF SetNodes
  <2>3. FromOn(1) = Range(result)
    BY PlaceFacts
  <2>4. QED
    BY <2>1, <2>2, <2>3
<1>5. MaximaAreRight'
  BY <1>1, <1>2, <1>3, <1>4 DEF SolutionSoFar, MaximaAreRight
<1>6. PICK g, n, values : g = structure /\ n = Root /\ values = user_data
  BY Zenon
<1>7. AreApart(g, <<n>>)
  BY DEF AreApart
<1>8. Lead(g, values, n, <<n>>, {})
  <2>1. ASSUME NEW y, \A i \in DOMAIN <<n>> : IsBestAt(g, values, <<n>>[i], y)
        PROVE  IsBestAt(g, values, n, {} \cup y)
    <3>1. IsBestAt(g, values, n, y)
      BY <2>1
    <3>2. {} \cup y = y
      OBVIOUS
    <3>3. QED
      BY <3>1, <3>2
  <2>2. QED
    BY <2>1 DEF Lead
<1>9. /\ answer' = [prob |-> values[n][1], true |-> {}] /\ node_queue' = <<n>>
      /\ g = structure' /\ n = Root' /\ values = user_data'
  BY <1>1, <1>2, <1>3, <1>6 DEF Root
<1>10. QED
  BY <1>1, <1>2, <1>5, <1>7, <1>8, <1>9 DEF SolutionSoFar

LEMMA ExtractKeepsSolution ==
  ASSUME QInv, SolutionSoFar, Extract
  PROVE  SolutionSoFar'
<1>1. PICK n, a, b, q, bits, g, values, root :
        /\ n = Head(node_queue) /\ a = Primes(n)[user_data[n][2]] /\ b = Subs(n)[user_data[n][2]]
        /\ q = node_queue /\ bits = answer.true /\ g = structure /\ values = user_data /\ root = Root
  BY Zenon
<1>2. /\ UNCHANGED <<serializerVars, query, pass, user_data>> /\ pass = "extract" /\ q # <<>>
      /\ node_queue' = IF TypeOf(n) = "decision" THEN Tail(q) \o <<a, b>> ELSE Tail(q)
      /\ answer' = IF \/ TypeOf(n) = "literal" /\ structure[n].sign
                      \/ TypeOf(n) = "top" /\ user_data[n][2] = 1
                     THEN [answer EXCEPT !.true = @ \cup {Variable(n)}]
                     ELSE answer
  BY <1>1 DEF Extract, nodeVars
<1>3. query = "GetMPESolution" /\ g \in Structures /\ q \in Seq(DOMAIN g) /\ Range(q) \subseteq Range(result)
  BY <1>1, <1>2, PlaceFacts DEF QInv, Control, QueueIsListed, SInv, ListIsTyped, Nodes
<1>4. n \in DOMAIN g /\ n \in SetNodes
  <2>1. 1 \in DOMAIN q /\ n = q[1]
    BY <1>1, <1>2, <1>3
  <2>2. n \in Range(q)
    BY <2>1 DEF Range
  <2>3. SetNodes = Range(result)
    BY <1>2 DEF SetNodes
  <2>4. QED
    BY <1>3, <2>1, <2>2, <2>3
<1>5. /\ \A m \in SetNodes : IsMaximum(g, values, m)
      /\ answer = [prob |-> values[root][1], true |-> bits]
      /\ AreApart(g, q) /\ Lead(g, values, root, q, bits)
  BY <1>1, <1>2, <1>3 DEF SolutionSoFar, MaximaAreRight
<1>6. IsMaximum(g, values, n)
  BY <1>4, <1>5
<1>7. /\ structure' = g /\ user_data' = values /\ Root' = root /\ SetNodes' = SetNodes
  BY <1>1, <1>2 DEF serializerVars, Root, SetNodes
<1>8. MaximaAreRight'
  BY <1>5, <1>7 DEF MaximaAreRight
<1>9. CASE g[n].type # "decision"
  <2>1. PICK d : d = IF IsChosen(g, values, n) THEN {g[n].variable} ELSE {}
    BY Zenon
  <2>2. /\ d = {} \/ d = {g[n].variable}
        /\ d # {} <=> IsChosen(g, values, n)
    BY <2>1
  <2>3. \A x : (g[n].variable \in x <=> d # {}) => IsBestAt(g, values, n, x)
    BY <1>6, <1>9, <2>2 DEF IsMaximum
  <2>4. AreApart(g, Tail(q)) /\ Lead(g, values, root, Tail(q), bits \cup d)
    BY <1>1, <1>2, <1>3, <1>5, <1>9, <2>2, <2>3, LeadPastLeaf
  <2>5. answer' = [prob |-> values[root][1], true |-> bits \cup d]
    <3>1. answer' = IF IsChosen(g, values, n) THEN [answer EXCEPT !.true = @ \cup {g[n].variable}] ELSE answer
      BY <1>1, <1>2 DEF IsChosen, TypeOf, Variable
    <3>2. CASE IsChosen(g, values, n)
      BY <1>5, <2>1, <3>1, <3>2
    <3>3. CASE ~IsChosen(g, values, n)
      <4>1. bits \cup d = bits
        BY <2>1, <3>3
      <4>2. QED
        BY <1>5, <3>1, <3>3, <4>1
    <3>4. QED
      BY <3>2, <3>3
  <2>6. node_queue' = Tail(q)
    BY <1>1, <1>2, <1>9 DEF TypeOf
  <2>7. answer'.true = bits \cup d
    BY <2>5
  <2>8. QED
    BY <1>2, <1>3, <1>7, <1>8, <2>4, <2>5, <2>6, <2>7 DEF SolutionSoFar
<1>10. CASE g[n].type = "decision"
  <2>1. PICK i : i = values[n][2]
    BY Zenon
  <2>2. i \in DOMAIN g[n].primes /\ a = g[n].primes[i] /\ b = g[n].subs[i]
    <3>1. user_data[n][2] \in Elements(n)
      BY <1>1, <1>3, <1>4, <1>10 DEF QInv, ScratchFollowsPass, ScratchIsTyped, TypeOf, Nodes
    <3>2. QED
      BY <1>1, <2>1, <3>1, Zenon DEF Elements, Primes, Subs
  <2>3. \A x \in AllInstantiations(g) :
          IsBestAt(g, values, a, x) /\ IsBestAt(g, values, b, x) => IsBestAt(g, values, n, x)
    BY <1>6, <1>10, <2>1, <2>2 DEF IsMaximum
  <2>4. AreApart(g, Tail(q) \o <<a, b>>) /\ Lead(g, values, root, Tail(q) \o <<a, b>>, bits)
    BY <1>1, <1>2, <1>3, <1>5, <1>10, <2>2, <2>3, LeadPastDecision
  <2>5. node_queue' = Tail(q) \o <<a, b>> /\ answer' = [prob |-> values[root][1], true |-> bits]
    BY <1>1, <1>2, <1>5, <1>10 DEF TypeOf
  <2>6. QED
    BY <1>2, <1>3, <1>7, <1>8, <2>4, <2>5 DEF SolutionSoFar
<1>11. QED
  BY <1>9, <1>10

LEMMA EndExtractKeepsSolution ==
  ASSUME QInv, SolutionSoFar, EndExtract
  PROVE  SolutionSoFar'
<1>1. PICK bits, g, values, root :
        bits = answer.true /\ g = structure /\ values = user_data /\ root = Root
  BY Zenon
<1>2. /\ UNCHANGED <<serializerVars, query, user_data, answer>> /\ pass = "extract" /\ pass' = "reset"
      /\ node_queue = <<>>
  BY DEF EndExtract, Enter, nodeVars, localVars
<1>3. query = "GetMPESolution"
  BY <1>2 DEF QInv, Control
<1>4. structure' = g /\ Root' = root
  BY <1>1, <1>2 DEF serializerVars, Root
<1>5. /\ \A n \in SetNodes : IsMaximum(g, values, n)
      /\ answer = [prob |-> values[root][1], true |-> bits]
      /\ Lead(g, values, root, <<>>, bits)
  BY <1>1, <1>2, <1>3 DEF SolutionSoFar, MaximaAreRight
<1>6. IsBestAt(g, values, root, bits)
  <2>1. {} \in SUBSET UnderAll(g, <<>>) /\ \A i \in DOMAIN <<>> : IsBestAt(g, values, <<>>[i], {})
    OBVIOUS
  <2>2. IsBestAt(g, values, root, bits \cup {})
    BY <1>5, <2>1 DEF Lead
  <2>3. bits \cup {} = bits
    OBVIOUS
  <2>4. QED
    BY <2>2, <2>3
<1>7. root \in SetNodes
  BY <1>1, <1>2, RootIsListed DEF SetNodes
<1>8. answer.prob = values[root][1] /\ answer.true = bits
  BY <1>5
<1>9. /\ WeightsIn(g, answer.true)[root] = answer.prob
      /\ \A x \in AllInstantiations(g) : WeightsIn(g, x)[root] <= answer.prob
  BY <1>5, <1>6, <1>7, <1>8 DEF IsBestAt, IsMaximum
<1>10. QED
  BY <1>2, <1>3, <1>4, <1>9 DEF SolutionSoFar

LEMMA OthersKeepSolution ==
  ASSUME QInv, SolutionSoFar,
         \/ Begin \/ Serialize \/ EndSerialize
         \/ ActivateNode \/ EvaluateNode \/ CountNode \/ WriteLine
         \/ NumberNode \/ EndNumber \/ DeriveNode \/ EndDown
         \/ ResetNode \/ EndReset \/ Return \/ UNCHANGED vars
  PROVE  SolutionSoFar'
<1>1. CASE Begin \/ Serialize \/ Return
  <2>1. pass' \in {"serialize", "none"}
    BY <1>1 DEF Begin, Serialize, Return, Enter
  <2>2. QED
    BY <2>1 DEF SolutionSoFar
<1>2. CASE EndSerialize
  <2>1. /\ UNCHANGED <<serializerVars, query>>
        /\ pass' = "number" \/ (pass' = "up" /\ position' = Len(result))
    BY <1>2 DEF EndSerialize, Enter
  <2>2. pass' = "up" => FromOn(position + 1)' = {}
    <3>1. FromOn(Len(result) + 1) = {}
      BY PlaceFacts
    <3>2. QED
      BY <2>1, <3>1, ListStays
  <2>3. query' = "GetMPESolution" /\ pass' = "up" => SetNodes' = {}
    BY <2>2 DEF SetNodes
  <2>4. QED
    BY <2>1, <2>3 DEF SolutionSoFar, MaximaAreRight
<1>3. CASE ActivateNode \/ EvaluateNode \/ CountNode \/ WriteLine
  <2>1. query' # "GetMPESolution" /\ pass' = "up"
    BY <1>3 DEF ActivateNode, EvaluateNode, CountNode, WriteLine, Up
  <2>2. QED
    BY <2>1 DEF SolutionSoFar
<1>4. CASE NumberNode \/ EndNumber \/ DeriveNode \/ EndDown
  <2>1. query' = query /\ pass \in {"number", "down"} /\ pass' \in {"number", "down", "reset"}
    BY <1>4 DEF NumberNode, EndNumber, DeriveNode, EndDown, Enter
  <2>2. query' = "GetMarginals"
    BY <2>1 DEF QInv, Control
  <2>3. QED
    BY <2>1, <2>2 DEF SolutionSoFar
<1>5. CASE ResetNode \/ EndReset
  <2>1. /\ UNCHANGED <<serializerVars, query, answer>>
        /\ pass = "reset" /\ pass' \in {"reset", "return"}
    BY <1>5 DEF ResetNode, EndReset, Enter, localVars
  <2>2. structure' = structure /\ Root' = Root
    BY <2>1 DEF serializerVars, Root
  <2>3. QED
    BY <2>1, <2>2 DEF SolutionSoFar
<1>6. CASE UNCHANGED vars
  <2>1. /\ UNCHANGED <<serializerVars, query, answer, pass, position, user_data, node_queue>>
    BY <1>6 DEF vars, nodeVars, localVars
  <2>2. /\ structure' = structure /\ Root' = Root /\ result' = result /\ \A i : FromOn(i)' = FromOn(i)
    BY <2>1, ListStays DEF serializerVars, Root
  <2>3. SetNodes' = SetNodes
    BY <2>1, <2>2 DEF SetNodes, FromOn
  <2>4. MaximaAreRight => MaximaAreRight'
    BY <2>1, <2>2, <2>3 DEF MaximaAreRight
  <2>5. QED
    BY <2>1, <2>2, <2>4 DEF SolutionSoFar
<1>7. QED
  BY <1>1, <1>2, <1>3, <1>4, <1>5, <1>6

\* The words GetMPESolution leaves bound the probability of each node, and what it has extracted can
\* be completed to an instantiation with that of the root.
THEOREM SolutionInvariant == Spec => [](QInv /\ SolutionSoFar)
<1>1. QueriesInit => SolutionSoFar
  BY DEF QueriesInit, SolutionSoFar
<1>2. QInv /\ SolutionSoFar /\ [Next]_vars => SolutionSoFar'
  BY MaximizeKeepsSolution, EndUpKeepsSolution, ExtractKeepsSolution, EndExtractKeepsSolution,
     OthersKeepSolution DEF Next, Work
<1>3. QED
  BY <1>1, <1>2, QueriesInvariant, PTL DEF Spec

\* GetMPESolution returns an instantiation with the probability it says, and none has a larger one,
\* for any PSDDs and any sequence of calls.
THEOREM SolutionsAreBest == Spec => []SolutionIsBest
<1>1. ASSUME QInv, SolutionSoFar PROVE SolutionIsBest
  <2>1. SUFFICES ASSUME pass = "return", query = "GetMPESolution"
                 PROVE  /\ Weight(answer.true) = answer.prob
                        /\ \A x \in Instantiations : Weight(x) <= answer.prob
    BY DEF SolutionIsBest
  <2>2. structure \in Structures /\ Root \in Nodes
    BY <1>1, <2>1, RootIsListed
  <2>3. \A x : Weight(x) = WeightsIn(structure, x)[Root]
    BY <2>2, WeightIsOfRoot
  <2>4. Instantiations \subseteq AllInstantiations(structure)
    BY VariablesAreOfNodes DEF Instantiations, Scope, AllInstantiations
  <2>5. /\ WeightsIn(structure, answer.true)[Root] = answer.prob
        /\ \A x \in AllInstantiations(structure) : WeightsIn(structure, x)[Root] <= answer.prob
    BY <1>1, <2>1 DEF SolutionSoFar
  <2>6. QED
    BY <2>3, <2>4, <2>5
<1>2. QED
  BY <1>1, SolutionInvariant, PTL

-----------------------------------------------------------------------------
(***************************************************************************)
(* WritePsddToFile and ReadPsddFile.  The content of a node is defined by  *)
(* recursion over the nodes; a solution is put together from those for the *)
(* nodes made before each.                                                 *)
(***************************************************************************)
LEMMA TreeIsOfChildren ==
  ASSUME structure \in Structures, NEW n \in Nodes, NEW v, NEW w,
         \A c \in Nodes : c < n => v[c] = w[c]
  PROVE  TreeAt(n, v) = TreeAt(n, w)
<1>1. \A i \in Elements(n) : v[Primes(n)[i]] = w[Primes(n)[i]] /\ v[Subs(n)[i]] = w[Subs(n)[i]]
  BY GraphFacts DEF Elements, Primes, Subs, Nodes
<1>2. {<<v[Primes(n)[i]], v[Subs(n)[i]], Parameters(n)[i]>> : i \in Elements(n)} =
      {<<w[Primes(n)[i]], w[Subs(n)[i]], Parameters(n)[i]>> : i \in Elements(n)}
  BY <1>1
<1>3. QED
  BY <1>2, Zenon DEF TreeAt

AreTreesBelow(k, v) == \A n \in Nodes : n < k => v[n] = TreeAt(n, v)

LEMMA TreesAgree ==
  ASSUME structure \in Structures, NEW k \in Nat, NEW v, NEW w, AreTreesBelow(k, v), AreTreesBelow(k, w)
  PROVE  \A n \in Nodes : n < k => v[n] = w[n]
<1> DEFINE T == {n \in Nodes : n < k /\ v[n] # w[n]}
<1>1. SUFFICES ASSUME T # {} PROVE FALSE
  OBVIOUS
<1>2. T \in SUBSET Nat
  BY GraphFacts DEF Nodes
<1>3. PICK n \in T : \A m \in T : n <= m
  <2> HIDE DEF T
  <2>1. QED
    BY <1>1, <1>2, LeastOf
<1>4. n \in Nodes /\ n < k /\ v[n] # w[n] /\ n \in Nat
  BY <1>2
<1>5. ASSUME NEW m \in Nodes, m < n PROVE v[m] = w[m]
  <2>1. m \in Nat /\ m < k /\ ~ n <= m
    BY <1>4, <1>5, GraphFacts DEF Nodes
  <2>2. m \notin T
    <3> HIDE DEF T
    <3>1. QED
      BY <1>3, <2>1
  <2>3. QED
    BY <1>5, <2>1, <2>2
<1>6. TreeAt(n, v) = TreeAt(n, w)
  BY <1>4, <1>5, TreeIsOfChildren
<1>7. QED
  BY <1>4, <1>6 DEF AreTreesBelow

LEMMA TreesExist ==
  ASSUME structure \in Structures
  PROVE  \E v : v = [n \in Nodes |-> TreeAt(n, v)]
<1> DEFINE K == {k \in Nat : \E v : AreTreesBelow(k, v)}
<1>0. Nodes \in SUBSET Nat
  BY GraphFacts DEF Nodes
<1>1. 0 \in K
  <2>1. \A n \in Nodes : ~ n < 0
    BY <1>0
  <2>2. \A v : AreTreesBelow(0, v)
    BY <2>1 DEF AreTreesBelow
  <2>3. QED
    BY <2>2
<1>2. ASSUME NEW k \in K PROVE k + 1 \in K
  <2>1. k \in Nat /\ k + 1 \in Nat
    OBVIOUS
  <2>2. PICK v : AreTreesBelow(k, v)
    OBVIOUS
  <2>3. PICK w : w = [n \in Nodes |-> IF n = k THEN TreeAt(k, v) ELSE v[n]]
    BY Zenon
  <2>4. \A n \in Nodes : w[n] = IF n = k THEN TreeAt(k, v) ELSE v[n]
    BY <2>3
  <2>5. ASSUME NEW n \in Nodes, n < k + 1 PROVE w[n] = TreeAt(n, w)
    <3>1. n \in Nat /\ (n < k \/ n = k)
      BY <1>0, <2>1, <2>5
    <3>2. \A c \in Nodes : c < n => v[c] = w[c]
      BY <1>0, <2>1, <2>4, <3>1
    <3>3. TreeAt(n, v) = TreeAt(n, w)
      BY <3>2, TreeIsOfChildren
    <3>4. CASE n = k
      BY <2>4, <3>3, <3>4
    <3>5. CASE n < k
      BY <2>2, <2>4, <3>1, <3>3, <3>5 DEF AreTreesBelow
    <3>6. QED
      BY <3>1, <3>4, <3>5
  <2>6. AreTreesBelow(k + 1, w)
    BY <2>5 DEF AreTreesBelow
  <2>7. QED
    BY <2>1, <2>6
<1>3. K = Nat
  <2> HIDE DEF K
  <2>1. K \in SUBSET Nat
    BY DEF K
  <2>2. QED
    BY <1>1, <1>2, <2>1, AllNumbers
<1>4. \A k \in Nat : \E v : AreTreesBelow(k, v)
  BY <1>3
<1>5. PICK vs : vs = [k \in Nat |-> CHOOSE v : AreTreesBelow(k, v)]
  BY Zenon
<1>6. ASSUME NEW k \in Nat PROVE AreTreesBelow(k, vs[k])
  <2>1. vs[k] = CHOOSE v : AreTreesBelow(k, v)
    BY <1>5, Zenon
  <2>2. \E v : AreTreesBelow(k, v)
    BY <1>4
  <2>3. QED
    BY <2>1, <2>2, Zenon
<1>7. PICK v : v = [n \in Nodes |-> vs[n + 1][n]]
  BY Zenon
<1>8. \A n \in Nodes : v[n] = vs[n + 1][n]
  BY <1>7
<1>9. ASSUME NEW n \in Nodes PROVE v[n] = TreeAt(n, v)
  <2>1. n \in Nat /\ n + 1 \in Nat /\ n < n + 1
    BY <1>0
  <2>2. PICK w : w = vs[n + 1] /\ AreTreesBelow(n + 1, w)
    BY <1>6, <2>1
  <2>3. ASSUME NEW c \in Nodes, c < n PROVE w[c] = v[c]
    <3>1. c \in Nat /\ c + 1 \in Nat /\ c < c + 1 /\ \A b \in Nat : b < c + 1 => b < n + 1
      BY <1>0, <2>1, <2>3
    <3>2. PICK u : u = vs[c + 1] /\ AreTreesBelow(c + 1, u)
      BY <1>6, <3>1
    <3>3. AreTreesBelow(c + 1, w)
      BY <1>0, <2>2, <3>1 DEF AreTreesBelow
    <3>4. u[c] = w[c]
      <4>1. PICK k \in Nat : k = c + 1
        BY <3>1
      <4>2. AreTreesBelow(k, u) /\ AreTreesBelow(k, w) /\ c < k
        BY <3>1, <3>2, <3>3, <4>1
      <4>3. QED
        BY <4>2, TreesAgree
    <3>5. QED
      BY <1>8, <3>2, <3>4
  <2>4. TreeAt(n, w) = TreeAt(n, v)
    BY <2>3, TreeIsOfChildren
  <2>5. w[n] = TreeAt(n, w) /\ v[n] = w[n]
    BY <1>8, <2>1, <2>2 DEF AreTreesBelow
  <2>6. QED
    BY <2>4, <2>5
<1>10. v = [n \in Nodes |-> TreeAt(n, v)]
  <2>1. [n \in Nodes |-> vs[n + 1][n]] = [n \in Nodes |-> TreeAt(n, v)]
    BY <1>8, <1>9, Zenon
  <2>2. QED
    BY <1>7, <2>1, Zenon
<1>11. QED
  BY <1>10, Zenon

LEMMA TreeUnfolds ==
  ASSUME structure \in Structures
  PROVE  \A n \in Nodes : NodeTree[n] = TreeAt(n, NodeTree)
<1>1. \E v : v = [n \in DOMAIN structure |-> TreeAt(n, v)]
  BY TreesExist, Zenon DEF Nodes
<1>2. NodeTree = [n \in DOMAIN structure |-> TreeAt(n, NodeTree)]
  BY <1>1, Zenon DEF NodeTree
<1>3. QED
  BY <1>2, Zenon DEF Nodes

-----------------------------------------------------------------------------
(***************************************************************************)
(* The file.  The list of nodes is written from its end.                   *)
(***************************************************************************)
IsLineFor(g, list, k, line) ==
  LET n == list[k] IN
  /\ line.number = Len(list) - k
  /\ g[n].type = "literal" => line.kind = "L" /\ line.var = g[n].variable /\ line.sign = g[n].sign
  /\ g[n].type = "top" => /\ line.kind = "T" /\ line.var = g[n].variable
                          /\ line.weights = <<g[n].parameters[2], g[n].parameters[1]>>
  /\ g[n].type = "decision" =>
       /\ line.kind = "D" /\ DOMAIN line.elements = DOMAIN g[n].primes
       /\ \A i \in DOMAIN g[n].primes :
            /\ line.elements[i].weight = g[n].parameters[i]
            /\ \E p \in DOMAIN list : p > k /\ list[p] = g[n].primes[i] /\ line.elements[i].prime = Len(list) - p
            /\ \E s \in DOMAIN list : s > k /\ list[s] = g[n].subs[i] /\ line.elements[i].sub = Len(list) - s

IsFileFor(g, list, file, position0) ==
  \A k \in DOMAIN list : k > position0 => IsLineFor(g, list, k, file[Len(list) + 1 - k])

HasParameters(g, n) == \A i \in DOMAIN g[n].parameters : g[n].parameters[i] # 0

\* A file that is complete is read back.
LEMMA LinesAreRead ==
  ASSUME structure \in Structures, NEW list \in Seq(Nodes), list # <<>>,
         \A k \in DOMAIN list : HasParameters(structure, list[k]),
         NEW file, DOMAIN file = 1..Len(list), Len(file) = Len(list), IsFileFor(structure, list, file, 0)
  PROVE  ReadPsddFile(file) = NodeTree[list[1]]
<1>1. PICK l, tree : l = Len(list) /\ tree = NodeTree
  BY Zenon
<1>2. l \in Nat \ {0} /\ DOMAIN list = 1..l /\ \A k \in 1..l : list[k] \in Nodes
  BY <1>1
<1>3. \A k \in 1..l : IsLineFor(structure, list, k, file[l + 1 - k])
  <2>1. \A k \in DOMAIN list : k > 0 => IsLineFor(structure, list, k, file[Len(list) + 1 - k])
    BY Zenon DEF IsFileFor
  <2>2. ASSUME NEW k \in 1..l PROVE IsLineFor(structure, list, k, file[l + 1 - k])
    <3>1. k \in DOMAIN list /\ k > 0 /\ Len(list) = l
      BY <1>1, <1>2
    <3>2. QED
      BY <2>1, <3>1, Zenon
  <2>3. QED
    BY <2>2
<1>4. \A i \in 1..l : l + 1 - i \in 1..l /\ l + 1 - (l + 1 - i) = i
  BY <1>2
<1>5. \A i \in 1..l : file[i].number = i - 1
  <2>1. ASSUME NEW i \in 1..l PROVE file[i].number = i - 1
    <3>1. PICK k \in 1..l : k = l + 1 - i /\ l + 1 - k = i
      BY <1>4
    <3>2. IsLineFor(structure, list, k, file[i])
      BY <1>3, <3>1
    <3>3. file[i].number = l - k
      BY <1>1, <3>2 DEF IsLineFor
    <3>4. QED
      BY <1>2, <3>1, <3>3
  <2>2. QED
    BY <2>1
<1>6. ASSUME NEW i \in 1..l PROVE EntryOf(file, i - 1) = i
  <2>1. \E j \in DOMAIN file : file[j].number = i - 1
    BY <1>1, <1>5
  <2>2. EntryOf(file, i - 1) \in DOMAIN file /\ file[EntryOf(file, i - 1)].number = i - 1
    BY <2>1, Zenon DEF EntryOf
  <2>3. PICK e : e = EntryOf(file, i - 1)
    BY Zenon
  <2>4. e \in 1..l /\ e - 1 = i - 1
    BY <1>1, <1>5, <2>2, <2>3
  <2>5. e = i
    BY <1>2, <2>4
  <2>6. QED
    BY <2>3, <2>5
\* What a line makes, where the entries of the lines before are right.
<1>7. ASSUME NEW i \in 1..l, NEW h,
             \A j \in 1..l : j < i => h[j] = tree[list[l + 1 - j]]
      PROVE  NodeAt(file, file[i], h) = tree[list[l + 1 - i]]
  <2>1. PICK k, n, line : k \in 1..l /\ k = l + 1 - i /\ l + 1 - k = i /\ n = list[k] /\ line = file[i]
    BY <1>4
  <2>2. IsLineFor(structure, list, k, line) /\ n \in Nodes
    BY <1>2, <1>3, <2>1
  <2>3. tree[n] = TreeAt(n, tree)
    BY <1>1, <2>2, TreeUnfolds
  <2>4. TypeOf(n) \in {"literal", "top", "decision"}
    BY <2>2, NodeFacts
  <2>5. CASE TypeOf(n) = "literal"
    <3>1. line.kind = "L" /\ line.var = Variable(n) /\ line.sign = structure[n].sign
      BY <2>1, <2>2, <2>5 DEF IsLineFor, TypeOf, Variable
    <3>2. NodeAt(file, line, h) = <<line.var, line.sign>>
      BY <3>1 DEF NodeAt
    <3>3. TreeAt(n, tree) = <<Variable(n), structure[n].sign>>
      BY <2>5 DEF TreeAt
    <3>4. QED
      BY <2>1, <2>3, <3>1, <3>2, <3>3
  <2>6. CASE TypeOf(n) = "top"
    <3>1. line.kind = "T" /\ line.var = Variable(n) /\ line.weights = <<FalseParameter(n), TrueParameter(n)>>
      BY <2>1, <2>2, <2>6 DEF IsLineFor, TypeOf, Variable, FalseParameter, TrueParameter, Parameters
    <3>2. NodeAt(file, line, h) = <<line.var, ReadWeight(line.weights, 2), ReadWeight(line.weights, 1)>>
      BY <3>1 DEF NodeAt
    <3>3. TreeAt(n, tree) = <<Variable(n), TrueParameter(n), FalseParameter(n)>>
      BY <2>6 DEF TreeAt
    <3>4. FalseParameter(n) # 0 /\ TrueParameter(n) # 0
      <4>1. DOMAIN Parameters(n) = 1..2
        BY <2>2, <2>6, NodeFacts
      <4>2. 1 \in DOMAIN Parameters(n) /\ 2 \in DOMAIN Parameters(n)
        BY <4>1
      <4>3. HasParameters(structure, n)
        BY <1>2, <2>1
      <4>4. \A m \in DOMAIN Parameters(n) : Parameters(n)[m] # 0
        BY <4>3, Zenon DEF HasParameters, Parameters
      <4>5. QED
        BY <4>2, <4>4, Zenon DEF TrueParameter, FalseParameter
    <3>5. ReadWeight(line.weights, 2) = TrueParameter(n) /\ ReadWeight(line.weights, 1) = FalseParameter(n)
      <4>1. line.weights[1] = FalseParameter(n) /\ line.weights[2] = TrueParameter(n)
        BY <3>1
      <4>2. ~IsCutOff(line.weights, 1) /\ ~IsCutOff(line.weights, 2)
        BY <3>4, <4>1 DEF IsCutOff
      <4>3. QED
        BY <3>4, <4>1, <4>2 DEF ReadWeight
    <3>6. QED
      BY <2>1, <2>3, <3>1, <3>2, <3>3, <3>5
  <2>7. CASE TypeOf(n) = "decision"
    <3>1. PICK I, w : I = Elements(n) /\ w = WeightsOf(line)
      BY Zenon
    <3>2. line.kind = "D" /\ DOMAIN line.elements = I
      BY <2>1, <2>2, <2>7, <3>1 DEF IsLineFor, TypeOf, Elements, Primes
    <3>3. ASSUME NEW j \in I
          PROVE  /\ w[j] = Parameters(n)[j] /\ w[j] # 0
                 /\ h[EntryOf(file, line.elements[j].prime)] = tree[Primes(n)[j]]
                 /\ h[EntryOf(file, line.elements[j].sub)] = tree[Subs(n)[j]]
      <4>1. /\ line.elements[j].weight = Parameters(n)[j]
            /\ \E p \in DOMAIN list : p > k /\ list[p] = Primes(n)[j] /\ line.elements[j].prime = l - p
            /\ \E s \in DOMAIN list : s > k /\ list[s] = Subs(n)[j] /\ line.elements[j].sub = l - s
        BY <1>1, <2>1, <2>2, <2>7, <3>1 DEF IsLineFor, TypeOf, Elements, Primes, Subs, Parameters
      <4>2. w[j] = Parameters(n)[j]
        BY <3>1, <3>2, <4>1 DEF WeightsOf
      <4>3. Parameters(n)[j] # 0
        <5>1. j \in DOMAIN Parameters(n)
          BY <2>2, <2>7, <3>1, NodeFacts
        <5>2. QED
          BY <1>2, <2>1, <5>1 DEF HasParameters, Parameters
      <4>4. ASSUME NEW p \in DOMAIN list, p > k PROVE h[EntryOf(file, l - p)] = tree[list[p]]
        <5>1. PICK q \in 1..l : q = l + 1 - p /\ q < i /\ l + 1 - q = p /\ q - 1 = l - p
          BY <1>2, <2>1, <4>4
        <5>2. EntryOf(file, q - 1) = q
          BY <1>6
        <5>3. h[q] = tree[list[l + 1 - q]]
          BY <1>7, <5>1
        <5>4. QED
          BY <5>1, <5>2, <5>3
      <4>5. QED
        BY <4>1, <4>2, <4>3, <4>4
    <3>4. \A j \in I : ~IsCutOff(w, j) /\ ReadWeight(w, j) = Parameters(n)[j]
      <4>1. PICK m \in Nat : I = 1..m
        BY <2>2, <3>1, NodeFacts
      <4>2. \A j \in I : \A b \in 1..j - 1 : w[b] # 0
        BY <3>3, <4>1
      <4>3. \A j \in I : ~IsCutOff(w, j)
        BY <4>2 DEF IsCutOff
      <4>4. QED
        BY <3>3, <4>3 DEF ReadWeight
    <3>5. {IF IsCutOff(w, j) THEN <<>>
           ELSE <<h[EntryOf(file, line.elements[j].prime)], h[EntryOf(file, line.elements[j].sub)],
                  ReadWeight(w, j)>> : j \in I} =
          {<<tree[Primes(n)[j]], tree[Subs(n)[j]], Parameters(n)[j]>> : j \in I}
      <4>1. \A j \in I : (IF IsCutOff(w, j) THEN <<>>
                          ELSE <<h[EntryOf(file, line.elements[j].prime)], h[EntryOf(file, line.elements[j].sub)],
                                 ReadWeight(w, j)>>) = <<tree[Primes(n)[j]], tree[Subs(n)[j]], Parameters(n)[j]>>
        BY <3>3, <3>4
      <4> DEFINE read(j) == IF IsCutOff(w, j) THEN <<>>
                            ELSE <<h[EntryOf(file, line.elements[j].prime)],
                                   h[EntryOf(file, line.elements[j].sub)], ReadWeight(w, j)>>
                 own(j) == <<tree[Primes(n)[j]], tree[Subs(n)[j]], Parameters(n)[j]>>
      <4>2. \A j \in I : read(j) = own(j)
        BY <4>1
      <4>3. {read(j) : j \in I} = {own(j) : j \in I}
        <5> HIDE DEF read, own
        <5>1. QED
          BY <4>2
      <4>4. QED
        BY <4>3
    <3>6. NodeAt(file, line, h) =
          {IF IsCutOff(w, j) THEN <<>>
           ELSE <<h[EntryOf(file, line.elements[j].prime)], h[EntryOf(file, line.elements[j].sub)],
                  ReadWeight(w, j)>> : j \in I}
      BY <3>1, <3>2, Zenon DEF NodeAt
    <3>7. TreeAt(n, tree) = {<<tree[Primes(n)[j]], tree[Subs(n)[j]], Parameters(n)[j]>> : j \in I}
      BY <2>7, <3>1, Zenon DEF TreeAt
    <3>8. QED
      BY <2>1, <2>3, <3>5, <3>6, <3>7
  <2>8. QED
    BY <2>4, <2>5, <2>6, <2>7
<1>8. \E h : h = [i \in DOMAIN file |-> NodeAt(file, file[i], h)]
  <2>1. PICK h : h = [i \in 1..l |-> tree[list[l + 1 - i]]]
    BY Zenon
  <2>2. \A j \in 1..l : h[j] = tree[list[l + 1 - j]]
    BY <2>1, Zenon
  <2>3. \A i \in 1..l : NodeAt(file, file[i], h) = tree[list[l + 1 - i]]
    BY <1>7, <2>2
  <2>4. [i \in 1..l |-> tree[list[l + 1 - i]]] = [i \in 1..l |-> NodeAt(file, file[i], h)]
    BY <2>3, Zenon
  <2>5. h = [i \in DOMAIN file |-> NodeAt(file, file[i], h)]
    BY <1>1, <2>1, <2>4, Zenon
  <2>6. QED
    BY <2>5, Zenon
<1>9. \E h : h = [i \in DOMAIN file |-> NodeAt(file, file[i], h)] /\ ReadPsddFile(file) = h[Len(file)]
  BY <1>8, Zenon DEF ReadPsddFile
<1>10. PICK h : h = [i \in DOMAIN file |-> NodeAt(file, file[i], h)] /\ ReadPsddFile(file) = h[Len(file)]
  BY <1>9
<1>11. \A i \in 1..l : h[i] = NodeAt(file, file[i], h)
  <2>1. \A i \in DOMAIN file : h[i] = NodeAt(file, file[i], h)
    BY <1>10, Zenon
  <2>2. QED
    BY <1>1, <2>1
<1> DEFINE T == {i \in 1..l : h[i] # tree[list[l + 1 - i]]}
<1>12. T = {}
  <2>1. SUFFICES ASSUME T # {} PROVE FALSE
    OBVIOUS
  <2>2. T \in SUBSET Nat
    OBVIOUS
  <2>3. PICK i \in T : \A m \in T : i <= m
    <3> HIDE DEF T
    <3>1. QED
      BY <2>1, <2>2, LeastOf
  <2>4. i \in 1..l /\ h[i] # tree[list[l + 1 - i]]
    OBVIOUS
  <2>5. \A j \in 1..l : j < i => h[j] = tree[list[l + 1 - j]]
    <3>1. ASSUME NEW j \in 1..l, j < i PROVE j \notin T
      <4> HIDE DEF T
      <4>1. QED
        BY <2>3, <2>4, <3>1
    <3>2. QED
      BY <3>1
  <2>6. QED
    BY <1>7, <1>11, <2>4, <2>5
<1>13. l \in 1..l /\ l + 1 - l = 1
  BY <1>2
<1>14. h[l] = tree[list[1]]
  <2>1. h[l] = tree[list[l + 1 - l]]
    BY <1>12, <1>13
  <2>2. QED
    BY <1>13, <2>1
<1>15. QED
  BY <1>1, <1>10, <1>14

HasOneRoot == query # "none" => Len(roots) = 1

\* The lines written when the loop is at a place, and the numbers left with their nodes.
AreNumbered(list, number, place) ==
  \A k \in DOMAIN list : k > place => number[list[k]] = <<Len(list) - k>>
AreLines(file, length) == \E S : file \in Seq(S) /\ Len(file) = length

LinesSoFar ==
  /\ pass \in {"none", "serialize"} => lines = <<>>
  /\ query = "WritePsddToFile" /\ pass = "up" =>
       /\ AreNumbered(result, user_data, position)
       /\ AreLines(lines, Len(result) - position)
       /\ IsFileFor(structure, result, lines, position)
  /\ query = "WritePsddToFile" /\ pass \in {"reset", "return"} =>
       AreLines(answer, Len(result)) /\ IsFileFor(structure, result, answer, 0)

IsLonger(longer, file, line, length) ==
  /\ AreLines(longer, length + 1)
  /\ longer[length + 1] = line
  /\ \A i \in 1..length : longer[i] = file[i]

LEMMA AppendedLine ==
  ASSUME NEW file, NEW line, NEW longer, longer = Append(file, line), NEW length \in Nat, AreLines(file, length)
  PROVE  IsLonger(longer, file, line, length)
<1>1. PICK S : file \in Seq(S) /\ Len(file) = length
  BY DEF AreLines
<1>2. PICK T : T = S \cup {line}
  BY Zenon
<1>3. file \in Seq(T) /\ line \in T
  BY <1>1, <1>2
<1>4. /\ Append(file, line) \in Seq(T) /\ Len(Append(file, line)) = length + 1
      /\ Append(file, line)[length + 1] = line
      /\ \A i \in 1..length : Append(file, line)[i] = file[i]
  BY <1>1, <1>3, AppendProperties
<1>5. QED
  BY <1>4 DEF AreLines, IsLonger

\* The numbers left with the children of a node tell their lines.
LEMMA LineIsRight ==
  ASSUME QInv, query = "WritePsddToFile", pass = "up", position > 0,
         AreNumbered(result, user_data, position)
  PROVE  IsLineFor(structure, result, position, LineOf(At))
<1>1. PICK g, n, line, list, L : g = structure /\ n = At /\ line = LineOf(At) /\ list = result /\ L = Len(result)
  BY Zenon
<1>2. /\ SInv /\ Serialized /\ structure \in Structures /\ position \in 1..L /\ L \in Nat
      /\ DOMAIN list = 1..L /\ n \in Nodes /\ n = list[position] /\ Len(list) = L
      /\ ChildrenIn(structure, n) \subseteq FromOn(position + 1)
  <2>1. SInv /\ Serialized /\ structure \in Structures /\ position \in Nat /\ position <= Len(result)
    BY DEF QInv, Control, SInv, ListIsTyped
  <2>2. position \in DOMAIN result /\ At \in Nodes /\ DOMAIN result = 1..Len(result) /\ Len(result) \in Nat
    BY <2>1, PlaceFacts
  <2>3. ChildrenIn(structure, At) \subseteq FromOn(position + 1)
    BY <2>1, <2>2, ChildrenAreLater DEF At
  <2>4. QED
    BY <1>1, <2>1, <2>2, <2>3 DEF At
<1>3. TypeOf(n) \in {"literal", "top", "decision"}
  BY <1>2, NodeFacts
<1>4. CASE TypeOf(n) = "literal"
  <2>1. line = [kind |-> "L", number |-> L - position, var |-> g[n].variable, sign |-> g[n].sign]
    BY <1>1, <1>4 DEF LineOf, LineNumber, Variable
  <2>2. line.number = L - position /\ line.kind = "L" /\ line.var = g[n].variable /\ line.sign = g[n].sign
    BY <2>1
  <2>3. QED
    BY <1>1, <1>2, <1>4, <2>2 DEF IsLineFor, TypeOf
<1>5. CASE TypeOf(n) = "top"
  <2>1. line = [kind |-> "T", number |-> L - position, var |-> g[n].variable,
                weights |-> <<g[n].parameters[2], g[n].parameters[1]>>]
    BY <1>1, <1>5 DEF LineOf, LineNumber, Variable, Weights, FalseParameter, TrueParameter, Parameters
  <2>2. /\ line.number = L - position /\ line.kind = "T" /\ line.var = g[n].variable
        /\ line.weights = <<g[n].parameters[2], g[n].parameters[1]>>
    BY <2>1
  <2>3. QED
    BY <1>1, <1>2, <1>5, <2>2 DEF IsLineFor, TypeOf
<1>6. CASE TypeOf(n) = "decision"
  <2>1. PICK elements : elements = [i \in Elements(n) |-> [prime |-> user_data[Primes(n)[i]][1],
                                                           sub |-> user_data[Subs(n)[i]][1],
                                                           weight |-> Parameters(n)[i]]]
    BY Zenon
  <2>2. line = [kind |-> "D", number |-> L - position, elements |-> elements]
    BY <1>1, <1>6, <2>1 DEF LineOf, LineNumber
  <2>3. line.number = L - position /\ line.kind = "D" /\ line.elements = elements
    BY <2>2
  <2>4. DOMAIN elements = DOMAIN g[n].primes
    BY <1>1, <2>1 DEF Elements, Primes
  <2>5. ASSUME NEW c \in ChildrenIn(structure, n)
        PROVE  \E p \in DOMAIN list : p > position /\ list[p] = c /\ user_data[c][1] = L - p
    <3>1. PICK p \in DOMAIN list : list[p] = c /\ p >= position + 1
      BY <1>1, <1>2, <2>5 DEF FromOn
    <3>2. p > position
      BY <1>2, <3>1
    <3>3. user_data[c] = <<L - p>>
      BY <1>1, <3>1, <3>2 DEF AreNumbered
    <3>4. user_data[c][1] = L - p
      BY <3>3
    <3>5. QED
      BY <3>1, <3>2, <3>4
  <2>6. ASSUME NEW i \in DOMAIN g[n].primes
        PROVE  /\ elements[i].weight = g[n].parameters[i]
               /\ \E p \in DOMAIN list : p > position /\ list[p] = g[n].primes[i] /\ elements[i].prime = L - p
               /\ \E s \in DOMAIN list : s > position /\ list[s] = g[n].subs[i] /\ elements[i].sub = L - s
    <3>1. PICK a, b, w : a = g[n].primes[i] /\ b = g[n].subs[i] /\ w = g[n].parameters[i]
      BY Zenon
    <3>2. elements[i] = [prime |-> user_data[a][1], sub |-> user_data[b][1], weight |-> w]
      BY <1>1, <2>1, <2>6, <3>1, Zenon DEF Elements, Primes, Subs, Parameters
    <3>3. elements[i].prime = user_data[a][1] /\ elements[i].sub = user_data[b][1] /\ elements[i].weight = w
      BY <3>2
    <3>4. a \in ChildrenIn(structure, n) /\ b \in ChildrenIn(structure, n)
      BY <1>1, <1>2, <2>6, <3>1, GraphFacts DEF Nodes
    <3>5. QED
      BY <2>5, <3>1, <3>3, <3>4
  <2>7. QED
    <3>1. line.number = Len(list) - position /\ g[n].type = "decision"
      BY <1>1, <1>2, <1>6, <2>3 DEF TypeOf
    <3>2. line.kind = "D" /\ DOMAIN line.elements = DOMAIN g[n].primes
      BY <2>3, <2>4
    <3>3. \A i \in DOMAIN g[n].primes :
            /\ line.elements[i].weight = g[n].parameters[i]
            /\ \E p \in DOMAIN list : p > position /\ list[p] = g[n].primes[i] /\ line.elements[i].prime = Len(list) - p
            /\ \E s \in DOMAIN list : s > position /\ list[s] = g[n].subs[i] /\ line.elements[i].sub = Len(list) - s
      BY <1>2, <2>3, <2>6
    <3>4. IsLineFor(g, list, position, line)
      <4>1. list[position] = n /\ g[n].type # "literal" /\ g[n].type # "top"
        BY <1>2, <3>1
      <4>2. QED
        BY <3>1, <3>2, <3>3, <4>1, Zenon DEF IsLineFor
    <3>5. QED
      BY <1>1, <3>4
<1>7. QED
  BY <1>3, <1>4, <1>5, <1>6

LEMMA WriteKeepsLines ==
  ASSUME QInv, LinesSoFar, WriteLine
  PROVE  LinesSoFar'
<1>1. /\ UNCHANGED <<serializerVars, query, pass>> /\ pass = "up" /\ query = "WritePsddToFile"
      /\ position > 0 /\ position' = position - 1
      /\ lines' = Append(lines, LineOf(At))
      /\ user_data' = [user_data EXCEPT ![At] = <<Len(result) - position>>]
  BY DEF WriteLine, Up, LineNumber
<1>2. PICK L, p, n, line, list, g, number :
        /\ L = Len(result) /\ p = position /\ n = At /\ line = LineOf(At) /\ list = result
        /\ g = structure /\ number = user_data'
  BY Zenon
<1>3. /\ p \in 1..L /\ L \in Nat /\ DOMAIN list = 1..L /\ Len(list) = L /\ n \in Nodes /\ n = list[p]
      /\ p - 1 \in Nat /\ position' = p - 1
      /\ result' = list /\ structure' = g /\ DOMAIN user_data = Nodes
      /\ \A k \in DOMAIN list : list[k] \in Nodes
  <2>1. position \in 1..Len(result) /\ At \in Nodes /\ result' = result
    BY <1>1, UpFacts
  <2>2. Len(result) \in Nat /\ DOMAIN result = 1..Len(result) /\ \A k \in DOMAIN result : result[k] \in Nodes
    BY ListFacts DEF QInv
  <2>3. DOMAIN user_data = Nodes
    BY DEF QInv, ScratchFollowsPass
  <2>4. QED
    BY <1>1, <1>2, <2>1, <2>2, <2>3 DEF At, serializerVars
<1>4. /\ AreNumbered(list, user_data, p) /\ AreLines(lines, L - p) /\ IsFileFor(g, list, lines, p)
  BY <1>1, <1>2 DEF LinesSoFar
<1>5. IsLineFor(g, list, p, line)
  BY <1>1, <1>2, <1>4, LineIsRight
<1>6. AreNumbered(list, number, p - 1)
  <2>1. \A m \in Nodes : number[m] = IF m = n THEN <<L - p>> ELSE user_data[m]
    BY <1>1, <1>2, <1>3
  <2>2. ASSUME NEW k \in DOMAIN list, k > p - 1 PROVE number[list[k]] = <<L - k>>
    <3>1. CASE k = p
      BY <1>3, <2>1, <3>1
    <3>2. CASE k # p
      <4>1. k > p
        BY <1>3, <2>2, <3>2
      <4>2. list[k] # n
        <5>1. IsInjective(list)
          BY <1>2, ListFacts DEF QInv
        <5>2. QED
          BY <1>3, <3>2, <5>1 DEF IsInjective
      <4>3. user_data[list[k]] = <<L - k>>
        BY <1>3, <1>4, <4>1 DEF AreNumbered
      <4>4. QED
        BY <1>3, <2>1, <4>2, <4>3
    <3>3. QED
      BY <3>1, <3>2
  <2>3. QED
    BY <1>3, <2>2 DEF AreNumbered
<1>7. PICK length \in Nat : length = L - p /\ length + 1 = L - (p - 1) /\ length + 1 = L + 1 - p
  BY <1>3
<1>8. /\ AreLines(lines', length + 1) /\ lines'[length + 1] = line
      /\ \A i \in 1..length : lines'[i] = lines[i]
  <2>1. PICK file, longer : file = lines /\ longer = lines'
    BY Zenon
  <2>2. longer = Append(file, line) /\ AreLines(file, length)
    BY <1>1, <1>2, <1>4, <1>7, <2>1
  <2>3. IsLonger(longer, file, line, length)
    BY <2>2, AppendedLine
  <2>4. QED
    BY <2>1, <2>3 DEF IsLonger
<1>9. IsFileFor(g, list, lines', p - 1)
  <2>1. ASSUME NEW k \in DOMAIN list, k > p - 1 PROVE IsLineFor(g, list, k, lines'[L + 1 - k])
    <3>1. CASE k = p
      BY <1>5, <1>7, <1>8, <3>1
    <3>2. CASE k # p
      <4>1. k > p /\ L + 1 - k \in 1..length
        BY <1>3, <1>7, <2>1, <3>2
      <4>2. IsLineFor(g, list, k, lines[L + 1 - k])
        BY <1>3, <1>4, <4>1 DEF IsFileFor
      <4>3. QED
        BY <1>8, <4>1, <4>2
    <3>3. QED
      BY <3>1, <3>2
  <2>2. QED
    BY <1>3, <2>1 DEF IsFileFor
<1>10. QED
  BY <1>1, <1>2, <1>3, <1>6, <1>7, <1>8, <1>9 DEF LinesSoFar

LEMMA EndUpKeepsLines ==
  ASSUME QInv, LinesSoFar, EndUp
  PROVE  LinesSoFar'
<1>1. /\ UNCHANGED serializerVars /\ query' = query /\ pass = "up" /\ position = 0
      /\ pass' \in {"reset", "return", "extract"}
      /\ query = "WritePsddToFile" => answer' = lines
  <2>1. query \in Queries /\ query # "GetMarginals" /\ pass = "up"
    BY DEF QInv, Control, EndUp
  <2>2. QED
    BY <2>1 DEF EndUp, Enter, UsesMap, Queries
<1>2. result' = result /\ structure' = structure /\ Len(result) \in Nat
  BY <1>1, PlaceFacts DEF serializerVars
<1>3. CASE query = "WritePsddToFile"
  <2>1. AreLines(lines, Len(result) - 0) /\ IsFileFor(structure, result, lines, 0)
    BY <1>1, <1>3 DEF LinesSoFar
  <2>2. Len(result) - 0 = Len(result)
    <3>1. \A m \in Nat : m - 0 = m
      OBVIOUS
    <3>2. QED
      BY ONLY <1>2, <3>1, Zenon
  <2>3. AreLines(answer', Len(result')) /\ IsFileFor(structure', result', answer', 0)
    BY <1>1, <1>2, <1>3, <2>1, <2>2
  <2>4. QED
    BY <1>1, <2>3 DEF LinesSoFar
<1>4. CASE query # "WritePsddToFile"
  BY <1>1, <1>4 DEF LinesSoFar
<1>5. QED
  BY <1>3, <1>4

LEMMA OthersKeepLines ==
  ASSUME QInv, LinesSoFar,
         \/ Begin \/ Serialize \/ EndSerialize
         \/ ActivateNode \/ EvaluateNode \/ CountNode \/ MaximizeNode \/ Extract \/ EndExtract
         \/ NumberNode \/ EndNumber \/ DeriveNode \/ EndDown
         \/ ResetNode \/ EndReset \/ Return \/ UNCHANGED vars
  PROVE  LinesSoFar'
<1>1. CASE Begin
  <2>1. lines' = lines /\ pass' = "serialize" /\ pass = "none"
    BY <1>1 DEF Begin, Enter, localVars, QInv, Control
  <2>2. QED
    BY <2>1 DEF LinesSoFar
<1>2. CASE Serialize
  <2>1. lines' = lines /\ pass' = "serialize" /\ pass = "serialize"
    BY <1>2 DEF Serialize, localVars
  <2>2. QED
    BY <2>1 DEF LinesSoFar
<1>3. CASE EndSerialize
  <2>1. /\ UNCHANGED serializerVars /\ pass = "serialize" /\ lines' = lines
        /\ pass' = "number" \/ (pass' = "up" /\ position' = Len(result))
    BY <1>3 DEF EndSerialize, Enter, localVars
  <2>2. lines' = <<>> /\ result' = result /\ Len(result) \in Nat /\ DOMAIN result = 1..Len(result)
    BY <2>1, PlaceFacts DEF LinesSoFar, serializerVars
  <2>3. ASSUME pass' = "up"
        PROVE  /\ AreNumbered(result', user_data', position') /\ AreLines(lines', Len(result') - position')
               /\ IsFileFor(structure', result', lines', position')
    <3>1. position' = Len(result) /\ Len(result') - position' = 0
      BY <2>1, <2>2, <2>3
    <3>2. \A k \in DOMAIN result' : ~ k > position'
      BY <2>2, <3>1
    <3>3. AreLines(<<>>, 0)
      <4>1. <<>> \in Seq({}) /\ Len(<<>>) = 0
        OBVIOUS
      <4>2. QED
        BY <4>1 DEF AreLines
    <3>4. QED
      BY <2>2, <3>1, <3>2, <3>3 DEF AreNumbered, IsFileFor
  <2>4. QED
    BY <2>1, <2>3 DEF LinesSoFar
<1>4. CASE ActivateNode \/ EvaluateNode \/ CountNode \/ MaximizeNode
  <2>1. query' # "WritePsddToFile" /\ pass' = "up"
    BY <1>4 DEF ActivateNode, EvaluateNode, CountNode, MaximizeNode, Up
  <2>2. QED
    BY <2>1 DEF LinesSoFar
<1>5. CASE Extract \/ EndExtract \/ NumberNode \/ EndNumber \/ DeriveNode \/ EndDown
  <2>1. query' = query /\ pass \in {"extract", "number", "down"} /\ pass' \in {"extract", "number", "down", "reset"}
    BY <1>5 DEF Extract, EndExtract, NumberNode, EndNumber, DeriveNode, EndDown, Enter
  <2>2. query' # "WritePsddToFile"
    BY <2>1 DEF QInv, Control
  <2>3. QED
    BY <2>1, <2>2 DEF LinesSoFar
<1>6. CASE ResetNode \/ EndReset
  <2>1. /\ UNCHANGED <<serializerVars, query, answer>>
        /\ pass = "reset" /\ pass' \in {"reset", "return"}
    BY <1>6 DEF ResetNode, EndReset, Enter, localVars
  <2>2. structure' = structure /\ result' = result
    BY <2>1 DEF serializerVars
  <2>3. QED
    BY <2>1, <2>2 DEF LinesSoFar
<1>7. CASE Return
  <2>1. lines' = <<>> /\ pass' = "none"
    BY <1>7 DEF Return, Enter
  <2>2. QED
    BY <2>1 DEF LinesSoFar
<1>8. CASE UNCHANGED vars
  <2>1. /\ UNCHANGED <<structure, result, query, answer, lines, pass, position, user_data>>
    BY <1>8 DEF vars, nodeVars, localVars, serializerVars
  <2>2. QED
    BY <2>1 DEF LinesSoFar
<1>9. QED
  BY <1>1, <1>2, <1>3, <1>4, <1>5, <1>6, <1>7, <1>8

LEMMA OneRootIsKept ==
  ASSUME QInv, HasOneRoot, [Next]_vars
  PROVE  HasOneRoot'
<1>1. CASE Begin
  <2>1. Len(roots') = 1
    BY <1>1 DEF Begin
  <2>2. QED
    BY <2>1 DEF HasOneRoot
<1>2. CASE Serialize
  <2>1. roots' = roots /\ query' = query
    BY <1>2 DEF Serialize, SerializerNext, PushRoot, PushChild, NextNode
  <2>2. QED
    BY <2>1 DEF HasOneRoot
<1>3. CASE Return
  BY <1>3 DEF Return, HasOneRoot
<1>4. CASE \/ EndSerialize
           \/ ActivateNode \/ EvaluateNode \/ CountNode \/ MaximizeNode \/ WriteLine
           \/ EndUp \/ Extract \/ EndExtract
           \/ NumberNode \/ EndNumber \/ DeriveNode \/ EndDown
           \/ ResetNode \/ EndReset \/ UNCHANGED vars
  <2>1. roots' = roots /\ query' = query
    BY <1>4 DEF EndSerialize, ActivateNode, EvaluateNode, CountNode, MaximizeNode, WriteLine, EndUp, Extract,
                EndExtract, NumberNode, EndNumber, DeriveNode, EndDown, ResetNode, EndReset, vars, serializerVars
  <2>2. QED
    BY <2>1 DEF HasOneRoot
<1>5. QED
  BY <1>1, <1>2, <1>3, <1>4 DEF Next, Work

\* With one root the list begins with it: all others are of lower levels.
LEMMA RootIsFirst ==
  ASSUME QInv, HasOneRoot, pass # "none", pass # "serialize"
  PROVE  result # <<>> /\ 1 \in DOMAIN result /\ result[1] = Root
<1>1. /\ SInv /\ structure \in Structures /\ Root \in Nodes /\ Root \in Range(result) /\ query # "none"
      /\ roots \in Seq(Nat)
  BY RootIsListed DEF QInv, Control, SInv, RootsAreGiven
<1>2. Range(roots) = {Root}
  <2>1. Len(roots) = 1
    BY <1>1 DEF HasOneRoot
  <2>2. DOMAIN roots = {1}
    BY <1>1, <2>1
  <2>3. QED
    BY <2>2 DEF Range, Root
<1>3. DOMAIN result = 1..Len(result) /\ Len(result) \in Nat /\ \A i \in DOMAIN result : result[i] \in Nodes
  BY <1>1, ListFacts
<1>4. PICK k \in DOMAIN result : result[k] = Root
  BY <1>1 DEF Range
<1>5. 1 \in DOMAIN result /\ 1 <= k
  BY <1>3
<1> DEFINE S == {n \in Nodes : n = Root \/ Depth(n) > Depth(Root)}
<1>6. IsClosedIn(structure, S)
  <2>1. ASSUME NEW n \in S, NEW c \in ChildrenIn(structure, n) PROVE c \in S
    <3>1. n \in Nodes /\ c \in Nodes /\ Depth(c) = Depth(n) + 1 /\ Depth(n) \in Nat /\ Depth(Root) \in Nat
      BY <1>1, Conformed DEF Depth, Nodes
    <3>2. Depth(c) > Depth(Root)
      BY <3>1
    <3>3. QED
      BY <3>1, <3>2
  <2>2. QED
    BY <2>1 DEF IsClosedIn
<1>7. Range(result) \subseteq S
  <2>1. S \in SUBSET Nodes /\ Range(roots) \subseteq S
    BY <1>1, <1>2
  <2> HIDE DEF S
  <2>2. QED
    BY <1>1, <1>6, <2>1 DEF SInv, ListedIsBelow
<1>8. result[1] \in S
  BY <1>5, <1>7 DEF Range
<1>9. Depth(result[1]) <= Depth(Root)
  BY <1>1, <1>4, <1>5 DEF SInv, LevelByLevel
<1>10. Depth(result[1]) \in Nat /\ Depth(Root) \in Nat
  BY <1>1, <1>3, <1>5, Conformed DEF Depth, Nodes
<1>11. QED
  BY <1>3, <1>5, <1>8, <1>9, <1>10

\* When WritePsddToFile returns, its lines are those of the list from its end.
THEOREM LinesInvariant == Spec => [](QInv /\ HasOneRoot /\ LinesSoFar)
<1>1. QueriesInit => HasOneRoot /\ LinesSoFar
  BY DEF QueriesInit, HasOneRoot, LinesSoFar
<1>2. QInv /\ HasOneRoot /\ LinesSoFar /\ [Next]_vars => HasOneRoot' /\ LinesSoFar'
  BY WriteKeepsLines, EndUpKeepsLines, OthersKeepLines, OneRootIsKept DEF Next, Work
<1>3. QED
  BY <1>1, <1>2, QueriesInvariant, PTL DEF Spec

\* The lines of every file have their numbers in order, refer to lines before, and are read back as
\* the PSDD that was written if no parameter is 0, for any PSDDs and any sequence of calls.
THEOREM FilesAreReadBack == Spec => []FileIsReadBack
<1>1. ASSUME QInv, HasOneRoot, LinesSoFar PROVE FileIsReadBack
  <2>1. SUFFICES ASSUME IsWritten
                 PROVE  /\ \A i \in DOMAIN answer :
                             /\ answer[i].number = i - 1
                             /\ answer[i].kind = "D" => \A j \in DOMAIN answer[i].elements :
                                  {answer[i].elements[j].prime, answer[i].elements[j].sub} \subseteq 0..i - 2
                        /\ ~HasZeroParameter => ReadPsddFile(answer) = NodeTree[Root]
    BY DEF FileIsReadBack
  <2>2. PICK g, list, l, file : g = structure /\ list = result /\ l = Len(result) /\ file = answer
    BY Zenon
  <2>3. /\ pass = "return" /\ query = "WritePsddToFile" /\ SInv
        /\ AreLines(file, l) /\ IsFileFor(g, list, file, 0)
    BY <1>1, <2>1, <2>2 DEF IsWritten, LinesSoFar, QInv
  <2>4. /\ structure \in Structures /\ list \in Seq(Nodes) /\ list # <<>> /\ list[1] = Root
        /\ l \in Nat /\ Len(list) = l /\ DOMAIN list = 1..l /\ \A k \in 1..l : list[k] \in Nodes
    BY <1>1, <2>2, <2>3, RootIsFirst, ListFacts DEF SInv, ListIsTyped
  <2>5. DOMAIN file = 1..l /\ Len(file) = l
    BY <2>3, <2>4 DEF AreLines
  <2>6. \A k \in 1..l : IsLineFor(g, list, k, file[l + 1 - k])
    <3>1. \A k \in DOMAIN list : k > 0 => IsLineFor(g, list, k, file[Len(list) + 1 - k])
      BY <2>3, Zenon DEF IsFileFor
    <3>2. ASSUME NEW k \in 1..l PROVE IsLineFor(g, list, k, file[l + 1 - k])
      <4>1. k \in DOMAIN list /\ k > 0 /\ Len(list) = l
        BY <2>4
      <4>2. QED
        BY <3>1, <4>1, Zenon
    <3>3. QED
      BY <3>2
  <2>7. ASSUME NEW i \in DOMAIN file
        PROVE  /\ file[i].number = i - 1
               /\ file[i].kind = "D" => \A j \in DOMAIN file[i].elements :
                    {file[i].elements[j].prime, file[i].elements[j].sub} \subseteq 0..i - 2
    <3>1. PICK k, n, line : k \in 1..l /\ k = l + 1 - i /\ l + 1 - k = i /\ l - k = i - 1 /\ n = list[k] /\ line = file[i]
      BY <2>4, <2>5, <2>7
    <3>2. IsLineFor(g, list, k, line) /\ n \in Nodes /\ Len(list) = l
      BY <2>4, <2>6, <3>1
    <3>3. line.number = l - k
      BY <3>2 DEF IsLineFor
    <3>4. ASSUME line.kind = "D", NEW j \in DOMAIN line.elements
          PROVE  {line.elements[j].prime, line.elements[j].sub} \subseteq 0..i - 2
      <4>1. g[n].type \in {"literal", "top", "decision"}
        BY <2>2, <2>4, <3>2, GraphFacts DEF Nodes
      <4>2. g[n].type = "decision"
        BY <3>1, <3>2, <3>4, <4>1 DEF IsLineFor
      <4>3. /\ DOMAIN line.elements = DOMAIN g[n].primes
            /\ \A m \in DOMAIN g[n].primes :
                 /\ \E p \in DOMAIN list : p > k /\ line.elements[m].prime = Len(list) - p
                 /\ \E s \in DOMAIN list : s > k /\ line.elements[m].sub = Len(list) - s
        BY <3>1, <3>2, <4>2, Zenon DEF IsLineFor
      <4>4. \A p \in DOMAIN list : p > k => Len(list) - p \in 0..i - 2
        BY <2>4, <2>5, <2>7, <3>1, <3>2
      <4>5. line.elements[j].prime \in 0..i - 2 /\ line.elements[j].sub \in 0..i - 2
        BY <3>4, <4>3, <4>4
      <4>6. QED
        BY <4>5
    <3>5. QED
      BY <3>1, <3>3, <3>4
  <2>8. ASSUME ~HasZeroParameter PROVE ReadPsddFile(file) = NodeTree[list[1]]
    <3>1. \A n \in Range(result) : n \in Below(structure, roots)
      <4>1. Range(result) \subseteq Nodes
        BY PlaceFacts, <1>1
      <4>2. QED
        BY <2>3, <4>1 DEF SInv, ListedIsBelow, Below, Nodes
    <3>2. ASSUME NEW k \in DOMAIN list PROVE HasParameters(structure, list[k])
      <4>1. list[k] \in Below(structure, roots)
        BY <2>2, <3>1, <3>2 DEF Range
      <4>2. 0 \notin Range(Parameters(list[k]))
        BY <2>8, <4>1 DEF HasZeroParameter
      <4>3. QED
        BY <4>2 DEF Range, HasParameters, Parameters
    <3>3. IsFileFor(structure, list, file, 0)
      BY <2>2, <2>3
    <3>4. DOMAIN file = 1..Len(list) /\ Len(file) = Len(list)
      BY <2>4, <2>5
    <3>5. QED
      BY <2>4, <3>2, <3>3, <3>4, LinesAreRead
  <2>9. QED
    BY <2>2, <2>4, <2>7, <2>8
<1>2. QED
  BY <1>1, LinesInvariant, PTL

-----------------------------------------------------------------------------
(***************************************************************************)
(* The units of probabilities are powers of One.                           *)
(***************************************************************************)
ArePowers(p) == p \in [Nat -> Nat] /\ p[0] = 1 /\ \A k \in Nat : p[k + 1] = One * p[k]

LEMMA PowersExist == \E p : ArePowers(p)
<1>0. One \in Nat \ {0}
  BY NodeQueriesAssumption
<1>1. PICK F : F = [n \in Nat |-> [v \in [Nat -> Nat] |-> IF n = 0 THEN 1 ELSE One * v[n - 1]]]
  BY Zenon
<1>2. \A n \in Nat : \A v \in [Nat -> Nat] :
        F[n][v] = (IF n = 0 THEN 1 ELSE One * v[n - 1]) /\ F[n][v] \in Nat
  <2>1. ASSUME NEW n \in Nat, NEW v \in [Nat -> Nat]
        PROVE  F[n][v] = (IF n = 0 THEN 1 ELSE One * v[n - 1]) /\ F[n][v] \in Nat
    <3>1. F[n][v] = IF n = 0 THEN 1 ELSE One * v[n - 1]
      BY <1>1
    <3>2. CASE n = 0
      BY <3>1, <3>2
    <3>3. CASE n # 0
      <4>1. n - 1 \in Nat /\ v[n - 1] \in Nat
        BY <3>3
      <4>2. One * v[n - 1] \in Nat
        BY <1>0, <4>1, Products
      <4>3. QED
        BY <3>1, <3>3, <4>2
    <3>4. QED
      BY <3>2, <3>3
  <2>2. QED
    BY <2>1
<1>3. F \in [Nat -> [[Nat -> Nat] -> Nat]]
  <2>1. \A n \in Nat : F[n] = [v \in [Nat -> Nat] |-> F[n][v]]
    BY <1>1
  <2>2. \A n \in Nat : F[n] \in [[Nat -> Nat] -> Nat]
    BY <1>2, <2>1
  <2>3. QED
    BY <1>1, <2>2
<1>4. ASSUME NEW n \in Nat, NEW v \in [Nat -> Nat], NEW w \in [Nat -> Nat], \A c \in Nat : c < n => v[c] = w[c]
      PROVE  F[n][v] = F[n][w]
  <2>1. n # 0 => n - 1 \in Nat /\ n - 1 < n
    OBVIOUS
  <2>2. n # 0 => v[n - 1] = w[n - 1]
    BY <1>4, <2>1
  <2>3. QED
    BY <1>2, <2>2
<1>5. IsRecursive(Nat, Nat, F)
  BY <1>3, <1>4 DEF IsRecursive
<1>6. PICK p \in [Nat -> Nat] : \A n \in Nat : p[n] = F[n][p]
  BY <1>5, SolutionExists
<1>7. p[0] = 1 /\ \A k \in Nat : p[k + 1] = One * p[k]
  <2>1. \A n \in Nat : p[n] = IF n = 0 THEN 1 ELSE One * p[n - 1]
    BY <1>2, <1>6
  <2>2. \A k \in Nat : k + 1 \in Nat /\ k + 1 # 0 /\ (k + 1) - 1 = k
    OBVIOUS
  <2>3. \A k \in Nat : p[k + 1] = One * p[k]
    BY <2>1, <2>2, Zenon
  <2>4. p[0] = 1
    BY <2>1
  <2>5. QED
    BY <2>3, <2>4
<1>8. QED
  BY <1>7 DEF ArePowers

LEMMA PowersMultiply ==
  ASSUME NEW p, ArePowers(p)
  PROVE  /\ \A i, j \in Nat : p[i] * p[j] = p[i + j]
         /\ \A i \in Nat : p[i] \in Nat \ {0}
         /\ p[1] = One
<1>0. One \in Nat \ {0} /\ p \in [Nat -> Nat] /\ p[0] = 1 /\ \A k \in Nat : p[k + 1] = One * p[k]
  BY NodeQueriesAssumption DEF ArePowers
<1> DEFINE G == {i \in Nat : p[i] > 0 /\ \A j \in Nat : p[i] * p[j] = p[i + j]}
<1>1. 0 \in G
  <2>1. \A j \in Nat : 0 + j = j /\ p[j] \in Nat
    BY <1>0
  <2>2. \A j \in Nat : p[0] * p[j] = p[0 + j]
    BY <1>0, <2>1, Products
  <2>3. 0 \in Nat /\ p[0] > 0
    BY <1>0
  <2>4. QED
    BY <2>2, <2>3, Zenon
<1>2. ASSUME NEW k \in G PROVE k + 1 \in G
  <2>1. k \in Nat /\ k + 1 \in Nat /\ p[k] \in Nat /\ p[k] > 0 /\ \A j \in Nat : p[k] * p[j] = p[k + j]
    BY <1>0
  <2>2. p[k + 1] = One * p[k]
    BY <1>0, <2>1, Zenon
  <2>3. p[k + 1] > 0
    BY <1>0, <2>1, <2>2, Products
  <2>4. ASSUME NEW j \in Nat PROVE p[k + 1] * p[j] = p[(k + 1) + j]
    <3>1. k + j \in Nat /\ (k + 1) + j = (k + j) + 1 /\ p[j] \in Nat
      BY <1>0, <2>1
    <3>2. p[(k + 1) + j] = One * p[k + j]
      BY <1>0, <3>1
    <3>3. (One * p[k]) * p[j] = One * (p[k] * p[j])
      BY <1>0, <2>1, <3>1, Products
    <3>4. QED
      BY <2>1, <2>2, <3>2, <3>3
  <2>5. QED
    BY <2>1, <2>3, <2>4
<1>3. G = Nat
  <2> HIDE DEF G
  <2>1. G \in SUBSET Nat
    BY DEF G
  <2>2. QED
    BY <1>1, <1>2, <2>1, AllNumbers
<1>4. p[1] = One
  <2>1. 0 + 1 = 1 /\ p[0 + 1] = One * p[0]
    BY <1>0
  <2>2. QED
    BY <1>0, <2>1
<1>5. \A i \in Nat : p[i] > 0 /\ p[i] \in Nat /\ \A j \in Nat : p[i] * p[j] = p[i + j]
  BY <1>0, <1>3
<1>6. \A i \in Nat : p[i] \in Nat \ {0}
  BY <1>5
<1>7. QED
  BY <1>4, <1>5, <1>6, Zenon

-----------------------------------------------------------------------------
(***************************************************************************)
(* Marginals: the sum, over the paths from a node to the leaves, of the    *)
(* products of the parameters on the way.                                  *)
(***************************************************************************)
MarginalAt(g, leaf, a, n) ==
  IF g[n].type = "decision"
    THEN SumFunctionOnSet([i \in DOMAIN g[n].primes |-> (a[g[n].primes[i]] + a[g[n].subs[i]]) * g[n].parameters[i]],
                          DOMAIN g[n].primes)
    ELSE leaf[n]
AreMarginals(g, leaf, a) == \A n \in DOMAIN g : a[n] = MarginalAt(g, leaf, a, n)

LEMMA MarginalsExist ==
  ASSUME NEW g \in Structures, NEW leaf, \A n \in DOMAIN g : leaf[n] \in Nat
  PROVE  \E a \in [DOMAIN g -> Nat] : AreMarginals(g, leaf, a)
<1>1. PICK F : F = [n \in DOMAIN g |-> [a \in [DOMAIN g -> Nat] |-> MarginalAt(g, leaf, a, n)]]
  BY Zenon
<1>2. ASSUME NEW n \in DOMAIN g, NEW a \in [DOMAIN g -> Nat]
      PROVE  F[n][a] = MarginalAt(g, leaf, a, n) /\ F[n][a] \in Nat
  <2>1. F[n][a] = MarginalAt(g, leaf, a, n)
    BY <1>1
  <2>2. CASE g[n].type # "decision"
    BY <2>1, <2>2 DEF MarginalAt
  <2>3. CASE g[n].type = "decision"
    <3>1. PICK f : f = [i \in DOMAIN g[n].primes |-> (a[g[n].primes[i]] + a[g[n].subs[i]]) * g[n].parameters[i]]
      BY Zenon
    <3>2. ASSUME NEW i \in DOMAIN g[n].primes PROVE f[i] \in Nat
      <4>1. PICK x, y, w : x = a[g[n].primes[i]] /\ y = a[g[n].subs[i]] /\ w = g[n].parameters[i]
        BY Zenon
      <4>2. x \in Nat /\ y \in Nat /\ w \in Nat
        BY <2>3, <4>1, GraphFacts, ParameterFacts
      <4>3. f[i] = (x + y) * w
        BY <3>1, <4>1
      <4>4. x + y \in Nat
        BY <4>2
      <4>5. QED
        BY <4>2, <4>3, <4>4, Products
    <3>3. SumFunctionOnSet(f, DOMAIN g[n].primes) \in Nat
      BY <3>2, ElementsAreFinite, SumIsNat
    <3>4. QED
      BY <2>1, <2>3, <3>1, <3>3 DEF MarginalAt
  <2>4. QED
    BY <2>2, <2>3
<1>3. F \in [DOMAIN g -> [[DOMAIN g -> Nat] -> Nat]]
  <2>1. \A n \in DOMAIN g : F[n] = [a \in [DOMAIN g -> Nat] |-> F[n][a]]
    BY <1>1
  <2>2. \A n \in DOMAIN g : F[n] \in [[DOMAIN g -> Nat] -> Nat]
    BY <1>2, <2>1
  <2>3. QED
    BY <1>1, <2>2
<1>4. ASSUME NEW n \in DOMAIN g, NEW v \in [DOMAIN g -> Nat], NEW w \in [DOMAIN g -> Nat],
             \A c \in DOMAIN g : c < n => v[c] = w[c]
      PROVE  F[n][v] = F[n][w]
  <2>1. \A i \in DOMAIN g[n].primes : /\ v[g[n].primes[i]] = w[g[n].primes[i]]
                                      /\ v[g[n].subs[i]] = w[g[n].subs[i]]
    BY <1>4, GraphFacts
  <2>2. [i \in DOMAIN g[n].primes |-> (v[g[n].primes[i]] + v[g[n].subs[i]]) * g[n].parameters[i]] =
        [i \in DOMAIN g[n].primes |-> (w[g[n].primes[i]] + w[g[n].subs[i]]) * g[n].parameters[i]]
    BY <2>1, Zenon
  <2>3. MarginalAt(g, leaf, v, n) = MarginalAt(g, leaf, w, n)
    BY <2>2, Zenon DEF MarginalAt
  <2>4. QED
    BY <1>2, <2>3
<1>5. DOMAIN g \in SUBSET Nat /\ Nat # {}
  BY GraphFacts
<1>6. IsRecursive(DOMAIN g, Nat, F)
  BY <1>3, <1>4, <1>5 DEF IsRecursive
<1>7. PICK v \in [DOMAIN g -> Nat] : \A n \in DOMAIN g : v[n] = F[n][v]
  BY <1>6, SolutionExists
<1>8. QED
  BY <1>2, <1>7 DEF AreMarginals

LEMMA ParametersAddUp ==
  ASSUME NEW g \in Structures, NEW n \in DOMAIN g, g[n].type = "decision"
  PROVE  SumFunctionOnSet(g[n].parameters, DOMAIN g[n].primes) = One
<1>1. SumFunction(g[n].parameters) = One
  BY NodeQueriesAssumption DEF IsNormalised
<1>2. DOMAIN g[n].parameters = DOMAIN g[n].primes
  BY ParameterFacts
<1>3. QED
  BY <1>1, <1>2, Zenon DEF SumFunction

\* What holds of every node whose lesser nodes it holds of, holds of all nodes.
LEMMA AllNodes ==
  ASSUME NEW g \in Structures, NEW G \in SUBSET DOMAIN g,
         \A n \in DOMAIN g : (\A c \in DOMAIN g : c < n => c \in G) => n \in G
  PROVE  G = DOMAIN g
<1>1. SUFFICES ASSUME DOMAIN g \ G # {} PROVE FALSE
  OBVIOUS
<1>2. DOMAIN g \in SUBSET Nat
  BY GraphFacts
<1>3. PICK n \in DOMAIN g \ G : \A c \in DOMAIN g \ G : n <= c
  BY <1>1, <1>2, LeastOf
<1>4. ASSUME NEW c \in DOMAIN g, c < n PROVE c \in G
  <2>1. c \in Nat /\ n \in Nat /\ ~ n <= c
    BY <1>2, <1>4
  <2>2. QED
    BY <1>3, <2>1
<1>5. QED
  BY <1>3, <1>4

LEMMA Cancelled ==
  ASSUME NEW a \in Nat, NEW b \in Nat, NEW c \in Nat \ {0}, a * c = b * c
  PROVE  a = b
<1>1. ASSUME NEW x \in Nat, NEW y \in Nat, x < y, x * c = y * c PROVE FALSE
  <2>1. PICK d \in Nat : d > 0 /\ y = x + d
    <3>1. y - x \in Nat /\ y - x > 0 /\ y = x + (y - x)
      BY <1>1
    <3>2. QED
      BY <3>1
  <2>2. (x + d) * c = x * c + d * c /\ d * c > 0 /\ x * c \in Nat /\ d * c \in Nat
    BY <2>1, Products
  <2>3. QED
    BY <1>1, <2>1, <2>2
<1>2. a < b \/ b < a \/ a = b
  OBVIOUS
<1>3. QED
  BY <1>1, <1>2

LEMMA SumOfSome ==
  ASSUME NEW f, NEW w, NEW S, IsFiniteSet(S), NEW T, T \subseteq S,
         \A i \in S : w[i] \in Nat /\ f[i] = (IF i \in T THEN w[i] ELSE 0)
  PROVE  SumFunctionOnSet(f, S) = SumFunctionOnSet(w, T)
<1>1. IsFiniteSet(T) /\ IsFiniteSet(S \ T) /\ T \cap (S \ T) = {} /\ S = T \cup (S \ T)
  BY FS_Subset
<1>2. \A i \in T \cup (S \ T) : f[i] \in Nat
  OBVIOUS
<1>3. SumFunctionOnSet(f, T \cup (S \ T)) = SumFunctionOnSet(f, T) + SumFunctionOnSet(f, S \ T)
  BY <1>1, <1>2, SumOfUnion
<1>4. SumFunctionOnSet(f, S \ T) = 0
  <2>1. \A i \in S \ T : f[i] = 0
    OBVIOUS
  <2>2. QED
    BY <1>1, <2>1, SumOfZeros
<1>5. SumFunctionOnSet(f, T) = SumFunctionOnSet(w, T)
  <2>1. \A i \in T : f[i] = w[i]
    OBVIOUS
  <2>2. QED
    BY <1>1, <2>1, SumsAgree
<1>6. SumFunctionOnSet(f, T) \in Nat
  <2>1. \A i \in T : f[i] \in Nat
    BY <1>2
  <2>2. QED
    BY <1>1, <2>1, SumIsNat
<1>7. SumFunctionOnSet(f, S) = SumFunctionOnSet(f, T) + 0
  BY <1>1, <1>3, <1>4, Zenon
<1>8. QED
  BY <1>5, <1>6, <1>7

LEMMA SumOfTwo ==
  ASSUME NEW f, NEW S, IsFiniteSet(S), NEW i \in S, NEW j \in S, i # j,
         f[i] \in Nat, f[j] \in Nat, \A k \in S : k # i /\ k # j => f[k] = 0
  PROVE  SumFunctionOnSet(f, S) = f[i] + f[j]
<1>1. \A k \in S : f[k] \in Nat
  OBVIOUS
<1>2. SumFunctionOnSet(f, S) = f[i] + SumFunctionOnSet(f, S \ {i})
  BY <1>1, SumWithout
<1>3. SumFunctionOnSet(f, S \ {i}) = f[j]
  <2>1. IsFiniteSet(S \ {i}) /\ j \in S \ {i} /\ \A k \in S \ {i} : k # j => f[k] = 0
    BY FS_Subset
  <2>2. QED
    BY <2>1, SumOfOne
<1>4. QED
  BY <1>2, <1>3

-----------------------------------------------------------------------------
LEMMA HasElements ==
  ASSUME NEW g \in Structures, NEW n \in DOMAIN g, g[n].type = "decision"
  PROVE  \E k : k \in DOMAIN g[n].primes
<1>1. g[n].primes # <<>> /\ g[n].primes \in Seq(Nat)
  BY NodeQueriesAssumption, PsddGraphAssumption DEF IsNormalised, IsConformed, PsddNode
<1>2. PICK k \in Nat : k = Len(g[n].primes)
  BY <1>1
<1>3. k # 0 /\ DOMAIN g[n].primes = 1..k
  BY <1>1, <1>2
<1>4. 1 \in 1..k
  BY <1>2, <1>3
<1>5. 1 \in DOMAIN g[n].primes
  BY <1>3, <1>4
<1>6. QED
  BY <1>5, Zenon

\* How many variables there are under a node.
Size(g, n) == Cardinality(VariablesUnder(g, n))

LEMMA SizesOfNodes ==
  ASSUME NEW g \in Structures
  PROVE  \A n \in DOMAIN g : IsFiniteSet(VariablesUnder(g, n)) /\ Size(g, n) \in Nat \ {0}
<1> DEFINE G == {n \in DOMAIN g : IsFiniteSet(VariablesUnder(g, n)) /\ VariablesUnder(g, n) # {}}
<1>1. ASSUME NEW n \in DOMAIN g, \A c \in DOMAIN g : c < n => c \in G
      PROVE  n \in G
  <2>1. CASE g[n].type # "decision"
    <3>1. VariablesUnder(g, n) = {g[n].variable}
      BY <2>1, VariablesOfNode
    <3>2. IsFiniteSet({g[n].variable}) /\ {g[n].variable} # {}
      BY FS_Singleton
    <3>3. QED
      BY <3>1, <3>2
  <2>2. CASE g[n].type = "decision"
    <3>1. PICK P, S : /\ VariablesUnder(g, n) = P \cup S /\ P \cap S = {}
                      /\ \A i \in DOMAIN g[n].primes : /\ VariablesUnder(g, g[n].primes[i]) = P
                                                       /\ VariablesUnder(g, g[n].subs[i]) = S
      BY <2>2, VariablesOfNode
    <3>2. PICK k \in DOMAIN g[n].primes : TRUE
      BY <2>2, HasElements
    <3>3. g[n].primes[k] \in G /\ g[n].subs[k] \in G
      BY <1>1, GraphFacts
    <3>4. IsFiniteSet(P) /\ IsFiniteSet(S) /\ P # {}
      BY <3>1, <3>3
    <3>5. IsFiniteSet(P \cup S) /\ P \cup S # {}
      BY <3>4, FS_Union
    <3>6. QED
      BY <3>1, <3>5
  <2>3. QED
    BY <2>1, <2>2
<1>2. G = DOMAIN g
  <2> HIDE DEF G
  <2>1. G \in SUBSET DOMAIN g
    BY DEF G
  <2>2. QED
    BY <1>1, <2>1, AllNodes
<1>3. ASSUME NEW n \in DOMAIN g PROVE IsFiniteSet(VariablesUnder(g, n)) /\ Size(g, n) \in Nat \ {0}
  <2>1. IsFiniteSet(VariablesUnder(g, n)) /\ VariablesUnder(g, n) # {}
    BY <1>2
  <2>2. Cardinality(VariablesUnder(g, n)) \in Nat /\ Cardinality(VariablesUnder(g, n)) # 0
    BY <2>1, FS_CardinalityType, FS_EmptySet
  <2>3. QED
    BY <2>1, <2>2 DEF Size
<1>4. QED
  BY <1>3

\* A sum of shares is that share of the sum.
AreShares(I, x, y, w, term, f, q, cx, c) ==
  \A i \in I : /\ x[i] \in Nat /\ y[i] \in Nat /\ w[i] \in Nat
                /\ x[i] * q = y[i] * cx
                /\ term[i] = x[i] * c * w[i]
                /\ f[i] = y[i] * w[i]

LEMMA ShareOfElements ==
  ASSUME NEW I, IsFiniteSet(I), NEW x, NEW y, NEW w, NEW term, NEW f,
         NEW q \in Nat, NEW cx \in Nat, NEW c \in Nat, AreShares(I, x, y, w, term, f, q, cx, c)
  PROVE  /\ SumFunctionOnSet(term, I) \in Nat /\ SumFunctionOnSet(f, I) \in Nat
         /\ SumFunctionOnSet(term, I) * q = SumFunctionOnSet(f, I) * (cx * c)
<1>0. cx * c \in Nat
  BY Products
<1> DEFINE h == [i \in I |-> term[i] * q]
<1>1. ASSUME NEW i \in I PROVE term[i] \in Nat /\ f[i] \in Nat /\ term[i] * q = f[i] * (cx * c)
  <2>1. PICK a, b, d : a = x[i] /\ b = y[i] /\ d = w[i]
    BY Zenon
  <2>2. /\ a \in Nat /\ b \in Nat /\ d \in Nat /\ a * q = b * cx
        /\ term[i] = a * c * d /\ f[i] = b * d
    BY <2>1 DEF AreShares
  <2>3. a * c \in Nat /\ a * c * d \in Nat /\ b * d \in Nat /\ c * d \in Nat /\ a * q \in Nat /\ b * cx \in Nat
    BY <2>2, Products
  <2>4. (a * c * d) * q = (a * q) * (c * d)
    BY <2>2, Products
  <2>5. (b * cx) * (c * d) = (b * d) * (cx * c)
    BY <2>2, Products
  <2>6. QED
    BY <2>2, <2>3, <2>4, <2>5
<1>2. \A i \in I : h[i] = term[i] * q
  OBVIOUS
<1>3. \A i \in I : h[i] = f[i] * (cx * c)
  BY <1>1, <1>2
<1> HIDE DEF h
<1>4. SumFunctionOnSet(h, I) = SumFunctionOnSet(term, I) * q
  BY <1>1, <1>2, SumScaled
<1>5. SumFunctionOnSet(h, I) = SumFunctionOnSet(f, I) * (cx * c)
  BY <1>0, <1>1, <1>3, SumScaled
<1>6. SumFunctionOnSet(term, I) \in Nat /\ SumFunctionOnSet(f, I) \in Nat
  BY <1>1, SumIsNat
<1>7. QED
  BY <1>4, <1>5, <1>6

\* The share of a node.
Mass(g, p, n) == p[2 * Size(g, n) - 1]
Above(g, d, n) == d + 1 - g[n].depth
IsShare(g, p, v, d, E, a, n) ==
  /\ v \in VariablesUnder(g, n) =>
       /\ Above(g, d, n) \in Nat \ {0}
       /\ E[n] * p[Above(g, d, n)] = a[n] * Mass(g, p, n)
  /\ v \notin VariablesUnder(g, n) => E[n] = Mass(g, p, n) /\ a[n] = 0
AreLeavesOf(g, v, d, seen, own) ==
  \A n \in DOMAIN g : g[n].type # "decision" =>
    /\ g[n].variable # v => seen[n] = One /\ own[n] = 0
    /\ g[n].variable = v => seen[n] = own[n] /\ g[n].depth = d

IsSplit(g, p, n, P, S, mP, mS) ==
  /\ VariablesUnder(g, n) = P \cup S /\ P \cap S = {}
  /\ mP \in Nat /\ mS \in Nat /\ mP * mS * One = Mass(g, p, n)
  /\ \A i \in DOMAIN g[n].primes :
       /\ VariablesUnder(g, g[n].primes[i]) = P /\ Mass(g, p, g[n].primes[i]) = mP
       /\ VariablesUnder(g, g[n].subs[i]) = S /\ Mass(g, p, g[n].subs[i]) = mS

LEMMA MassOfDecision ==
  ASSUME NEW g \in Structures, NEW p, ArePowers(p), NEW n \in DOMAIN g, g[n].type = "decision"
  PROVE  \E P, S, mP, mS : IsSplit(g, p, n, P, S, mP, mS)
<1>1. PICK P, S : /\ VariablesUnder(g, n) = P \cup S /\ P \cap S = {}
                  /\ \A i \in DOMAIN g[n].primes : /\ VariablesUnder(g, g[n].primes[i]) = P
                                                   /\ VariablesUnder(g, g[n].subs[i]) = S
  BY VariablesOfNode
<1>2. PICK e : e \in DOMAIN g[n].primes
  BY HasElements
<1>3. PICK k, j : k = Cardinality(P) /\ j = Cardinality(S)
  BY Zenon
<1>4. IsFiniteSet(P) /\ IsFiniteSet(S) /\ k \in Nat \ {0} /\ j \in Nat \ {0}
  <2>1. g[n].primes[e] \in DOMAIN g /\ g[n].subs[e] \in DOMAIN g
    BY <1>2, GraphFacts
  <2>2. /\ IsFiniteSet(VariablesUnder(g, g[n].primes[e])) /\ Size(g, g[n].primes[e]) \in Nat \ {0}
        /\ IsFiniteSet(VariablesUnder(g, g[n].subs[e])) /\ Size(g, g[n].subs[e]) \in Nat \ {0}
    BY <2>1, SizesOfNodes
  <2>3. VariablesUnder(g, g[n].primes[e]) = P /\ VariablesUnder(g, g[n].subs[e]) = S
    BY <1>1, <1>2
  <2>4. QED
    BY <1>3, <2>2, <2>3 DEF Size
<1>5. Size(g, n) = k + j
  <2>1. Cardinality(P \cup S) = Cardinality(P) + Cardinality(S) - Cardinality(P \cap S)
    BY <1>4, FS_Union
  <2>2. Cardinality(P \cap S) = 0
    BY <1>1, FS_EmptySet
  <2>3. QED
    BY <1>1, <1>3, <1>4, <2>1, <2>2 DEF Size
<1>6. PICK mP, mS : mP = p[2 * k - 1] /\ mS = p[2 * j - 1]
  BY Zenon
<1>7. mP \in Nat /\ mS \in Nat /\ mP * mS * One = Mass(g, p, n)
  <2>1. PICK a, b : a = 2 * k - 1 /\ b = 2 * j - 1
    BY Zenon
  <2>2. a \in Nat /\ b \in Nat /\ a + b \in Nat /\ 1 \in Nat /\ (a + b) + 1 = 2 * (k + j) - 1
    BY <1>4, <2>1
  <2>3. p[a] \in Nat /\ p[b] \in Nat
    BY <2>2, PowersMultiply
  <2>4. p[a] * p[b] = p[a + b] /\ p[a + b] * p[1] = p[(a + b) + 1] /\ p[1] = One
    <3>1. \A i, l \in Nat : p[i] * p[l] = p[i + l]
      BY PowersMultiply
    <3>2. p[1] = One
      BY PowersMultiply
    <3>3. QED
      BY <2>2, <3>1, <3>2, Zenon
  <2>5. p[a] * p[b] * One = p[2 * (k + j) - 1]
    BY <2>2, <2>4
  <2>6. QED
    BY <1>5, <1>6, <2>1, <2>3, <2>5 DEF Mass
<1>8. \A i \in DOMAIN g[n].primes :
        /\ VariablesUnder(g, g[n].primes[i]) = P /\ Mass(g, p, g[n].primes[i]) = mP
        /\ VariablesUnder(g, g[n].subs[i]) = S /\ Mass(g, p, g[n].subs[i]) = mS
  BY <1>1, <1>3, <1>6 DEF Mass, Size
<1>9. IsSplit(g, p, n, P, S, mP, mS)
  BY <1>1, <1>7, <1>8 DEF IsSplit
<1>10. QED
  BY <1>9

\* The elements of a decision node, where the side with the variable is a share.
HaveShares(g, p, n, x, y, term, f, e, cx, c) ==
  /\ cx \in Nat /\ c \in Nat /\ cx * c * One = Mass(g, p, n) /\ e \in Nat
  /\ AreShares(DOMAIN g[n].primes, x, y, g[n].parameters, term, f, p[e], cx, c)
LEMMA ShareOfDecision ==
  ASSUME NEW g \in Structures, NEW p, ArePowers(p), NEW n \in DOMAIN g, g[n].type = "decision",
         NEW x, NEW y, NEW term, NEW f, NEW cx, NEW c, NEW e,
         HaveShares(g, p, n, x, y, term, f, e, cx, c)
  PROVE  SumFunctionOnSet(term, DOMAIN g[n].primes) * p[e + 1] =
         SumFunctionOnSet(f, DOMAIN g[n].primes) * Mass(g, p, n)
<1>0. PICK q : q = p[e]
  BY Zenon
<1>11. /\ q \in Nat /\ cx \in Nat /\ c \in Nat /\ e \in Nat /\ cx * c * One = Mass(g, p, n)
      /\ AreShares(DOMAIN g[n].primes, x, y, g[n].parameters, term, f, q, cx, c)
  BY <1>0, PowersMultiply DEF HaveShares
<1>1. PICK I, w : I = DOMAIN g[n].primes /\ w = g[n].parameters
  BY Zenon
<1>2. IsFiniteSet(I) /\ \A i \in I : w[i] \in Nat
  BY <1>1, ElementsAreFinite, ParameterFacts
<1>3. AreShares(I, x, y, w, term, f, q, cx, c)
  BY <1>1, <1>11
<1>4. /\ SumFunctionOnSet(term, I) \in Nat /\ SumFunctionOnSet(f, I) \in Nat
      /\ SumFunctionOnSet(term, I) * q = SumFunctionOnSet(f, I) * (cx * c)
  BY <1>2, <1>3, <1>11, ShareOfElements
<1>5. PICK s, m : s = SumFunctionOnSet(term, I) /\ m = SumFunctionOnSet(f, I)
  BY Zenon
<1>6. s \in Nat /\ m \in Nat /\ s * q = m * (cx * c)
  BY <1>4, <1>5, <1>11
<1>7. p[e + 1] = q * One
  <2>1. \A i, l \in Nat : p[i] * p[l] = p[i + l]
    BY PowersMultiply
  <2>2. p[1] = One /\ 1 \in Nat
    BY PowersMultiply
  <2>3. QED
    BY <1>0, <1>11, <2>1, <2>2, Zenon
<1>8. One \in Nat /\ cx * c \in Nat
  BY <1>11, NodeQueriesAssumption, Products
<1>9. s * (q * One) = (s * q) * One /\ m * ((cx * c) * One) = (m * (cx * c)) * One
  <2>1. PICK r : r = cx * c
    BY Zenon
  <2>2. s * (q * One) = (s * q) * One
    BY <1>6, <1>8, <1>11, Products
  <2>3. m * (r * One) = (m * r) * One
    BY <1>6, <1>8, <1>11, <2>1, Products
  <2>4. QED
    BY <2>1, <2>2, <2>3
<1>10. QED
  BY <1>1, <1>5, <1>6, <1>7, <1>9, <1>11

LEMMA SharesOfNodes ==
  ASSUME NEW g \in Structures, NEW p, ArePowers(p), NEW v, NEW d \in Nat, NEW seen, NEW own,
         AreLeavesOf(g, v, d, seen, own),
         NEW E \in [DOMAIN g -> Nat], AreValues(g, seen, ParametersOf(g), E),
         NEW a \in [DOMAIN g -> Nat], AreMarginals(g, own, a)
  PROVE  \A n \in DOMAIN g : IsShare(g, p, v, d, E, a, n)
<1> DEFINE G == {n \in DOMAIN g : IsShare(g, p, v, d, E, a, n)}
<1>0. p[1] = One /\ One \in Nat \ {0} /\ \A i \in Nat : p[i] \in Nat \ {0}
  BY PowersMultiply, NodeQueriesAssumption
<1>1. ASSUME NEW n \in DOMAIN g, \A c \in DOMAIN g : c < n => c \in G
      PROVE  IsShare(g, p, v, d, E, a, n)
  <2>1. CASE g[n].type # "decision"
    <3>1. E[n] = seen[n] /\ a[n] = own[n]
      BY <2>1 DEF AreValues, ValueAt, AreMarginals, MarginalAt
    <3>2. VariablesUnder(g, n) = {g[n].variable} /\ Mass(g, p, n) = One
      <4>1. VariablesUnder(g, n) = {g[n].variable}
        BY <2>1, VariablesOfNode
      <4>2. Size(g, n) = 1
        BY <4>1, FS_Singleton DEF Size
      <4>3. QED
        BY <1>0, <4>1, <4>2 DEF Mass
    <3>3. CASE g[n].variable # v
      BY <2>1, <3>1, <3>2, <3>3 DEF AreLeavesOf, IsShare
    <3>4. CASE g[n].variable = v
      <4>1. E[n] = a[n] /\ g[n].depth = d
        BY <2>1, <3>1, <3>4 DEF AreLeavesOf
      <4>2. Above(g, d, n) = 1
        BY <4>1 DEF Above
      <4>3. QED
        BY <1>0, <3>2, <3>4, <4>1, <4>2 DEF IsShare
    <3>5. QED
      BY <3>3, <3>4
  <2>2. CASE g[n].type = "decision"
    <3>1. PICK P, S, mP, mS : IsSplit(g, p, n, P, S, mP, mS)
      BY <2>2, MassOfDecision
    <3>2. /\ VariablesUnder(g, n) = P \cup S /\ P \cap S = {}
          /\ mP \in Nat /\ mS \in Nat /\ mP * mS * One = Mass(g, p, n)
          /\ \A i \in DOMAIN g[n].primes :
               /\ VariablesUnder(g, g[n].primes[i]) = P /\ Mass(g, p, g[n].primes[i]) = mP
               /\ VariablesUnder(g, g[n].subs[i]) = S /\ Mass(g, p, g[n].subs[i]) = mS
      BY <3>1 DEF IsSplit
    <3>3. PICK term, f : /\ term = [i \in DOMAIN g[n].primes |->
                                      E[g[n].primes[i]] * E[g[n].subs[i]] * ParametersOf(g)[n][i]]
                         /\ f = [i \in DOMAIN g[n].primes |->
                                   (a[g[n].primes[i]] + a[g[n].subs[i]]) * g[n].parameters[i]]
      BY Zenon
    <3>4. /\ E[n] = SumFunctionOnSet(term, DOMAIN g[n].primes)
          /\ a[n] = SumFunctionOnSet(f, DOMAIN g[n].primes)
      <4>1. E[n] = SumFunction(term) /\ DOMAIN term = DOMAIN g[n].primes
        BY <2>2, <3>3, Zenon DEF AreValues, ValueAt
      <4>2. a[n] = SumFunctionOnSet(f, DOMAIN g[n].primes)
        BY <2>2, <3>3, Zenon DEF AreMarginals, MarginalAt
      <4>3. QED
        BY <4>1, <4>2, Zenon DEF SumFunction
    <3>5. PICK x, z, b, h, w :
            /\ x = [i \in DOMAIN g[n].primes |-> E[g[n].primes[i]]]
            /\ z = [i \in DOMAIN g[n].primes |-> E[g[n].subs[i]]]
            /\ b = [i \in DOMAIN g[n].primes |-> a[g[n].primes[i]]]
            /\ h = [i \in DOMAIN g[n].primes |-> a[g[n].subs[i]]]
            /\ w = g[n].parameters
      BY Zenon
    <3>6. ASSUME NEW i \in DOMAIN g[n].primes
          PROVE  /\ x[i] \in Nat /\ z[i] \in Nat /\ b[i] \in Nat /\ h[i] \in Nat /\ w[i] \in Nat
                 /\ term[i] = x[i] * z[i] * w[i] /\ term[i] = z[i] * x[i] * w[i]
                 /\ f[i] = (b[i] + h[i]) * w[i]
      <4>1. g[n].primes[i] \in DOMAIN g /\ g[n].subs[i] \in DOMAIN g
        BY GraphFacts
      <4>2. x[i] \in Nat /\ z[i] \in Nat /\ b[i] \in Nat /\ h[i] \in Nat /\ w[i] \in Nat
        BY <2>2, <3>5, <4>1, ParameterFacts
      <4>3. term[i] = x[i] * z[i] * w[i] /\ f[i] = (b[i] + h[i]) * w[i]
        <5>1. ParametersOf(g)[n] = w
          BY <3>5 DEF ParametersOf
        <5>2. QED
          BY <3>3, <3>5, <5>1, Zenon
      <4>4. PICK xi, zi : xi = x[i] /\ zi = z[i]
        BY Zenon
      <4>5. xi * zi = zi * xi
        BY <4>2, <4>4, Products
      <4>6. QED
        BY <4>2, <4>3, <4>4, <4>5, Zenon
    <3>7. ASSUME NEW i \in DOMAIN g[n].primes
          PROVE  /\ v \in P => /\ Above(g, d, n) - 1 \in Nat \ {0}
                                /\ x[i] * p[Above(g, d, n) - 1] = b[i] * mP
                 /\ v \notin P => x[i] = mP /\ b[i] = 0
                 /\ v \in S => /\ Above(g, d, n) - 1 \in Nat \ {0}
                                /\ z[i] * p[Above(g, d, n) - 1] = h[i] * mS
                 /\ v \notin S => z[i] = mS /\ h[i] = 0
      <4>1. PICK k, m : k = g[n].primes[i] /\ m = g[n].subs[i]
        BY Zenon
      <4>2. k \in G /\ m \in G
        BY <1>1, <4>1, GraphFacts
      <4>3. IsShare(g, p, v, d, E, a, k) /\ IsShare(g, p, v, d, E, a, m)
        BY <4>2
      <4>4. Above(g, d, k) = Above(g, d, n) - 1 /\ Above(g, d, m) = Above(g, d, n) - 1
        <5>1. /\ g[k].depth = g[n].depth + 1 /\ g[m].depth = g[n].depth + 1 /\ g[n].depth \in Nat
          <6>1. k \in ChildrenIn(g, n) /\ m \in ChildrenIn(g, n)
            BY <4>1, GraphFacts
          <6>2. QED
            BY <6>1, Conformed
        <5>2. QED
          BY <5>1 DEF Above
      <4>5. x[i] = E[k] /\ z[i] = E[m] /\ b[i] = a[k] /\ h[i] = a[m]
        BY <3>5, <4>1
      <4>6. /\ VariablesUnder(g, k) = P /\ VariablesUnder(g, m) = S
            /\ Mass(g, p, k) = mP /\ Mass(g, p, m) = mS
        BY <3>2, <4>1
      <4>7. QED
        BY <4>3, <4>4, <4>5, <4>6, Zenon DEF IsShare
    <3>8. \E i : i \in DOMAIN g[n].primes
      BY <2>2, HasElements
    <3>9. CASE v \in P
      <4>1. v \notin S /\ v \in VariablesUnder(g, n)
        BY <3>2, <3>9
      <4>2. PICK e : e = Above(g, d, n) - 1
        BY Zenon
      <4>3. e \in Nat \ {0} /\ Above(g, d, n) = e + 1
        <5>1. Above(g, d, n) \in Int
          BY PsddGraphAssumption DEF IsConformed, PsddNode, Above
        <5>2. QED
          BY <3>7, <3>8, <3>9, <4>2, <5>1
      <4>4. p[e] \in Nat
        BY <1>0, <4>3
      <4>5. AreShares(DOMAIN g[n].primes, x, b, g[n].parameters, term, f, p[e], mP, mS)
        <5>1. ASSUME NEW i \in DOMAIN g[n].primes
              PROVE  /\ x[i] \in Nat /\ b[i] \in Nat /\ x[i] * p[e] = b[i] * mP
                     /\ term[i] = x[i] * mS * g[n].parameters[i]
                     /\ f[i] = b[i] * g[n].parameters[i]
                     /\ g[n].parameters[i] \in Nat
          <6>1. z[i] = mS /\ h[i] = 0 /\ x[i] * p[e] = b[i] * mP
            BY <3>7, <3>9, <4>1, <4>2
          <6>2. b[i] + h[i] = b[i]
            BY <3>6, <6>1
          <6>3. QED
            BY <3>5, <3>6, <6>1, <6>2, Zenon
        <5>2. QED
          BY <5>1 DEF AreShares
      <4>6. E[n] * p[e + 1] = a[n] * Mass(g, p, n)
        <5>1. HaveShares(g, p, n, x, b, term, f, e, mP, mS)
          BY <3>2, <4>3, <4>5 DEF HaveShares
        <5>2. SumFunctionOnSet(term, DOMAIN g[n].primes) * p[e + 1] =
              SumFunctionOnSet(f, DOMAIN g[n].primes) * Mass(g, p, n)
          BY <2>2, <5>1, ShareOfDecision
        <5>3. QED
          BY <3>4, <5>2
      <4>7. e + 1 \in Nat \ {0}
        BY <4>3
      <4>8. QED
        BY <4>1, <4>3, <4>6, <4>7, Zenon DEF IsShare
    <3>10. CASE v \in S
      <4>1. v \notin P /\ v \in VariablesUnder(g, n)
        BY <3>2, <3>10
      <4>2. PICK e : e = Above(g, d, n) - 1
        BY Zenon
      <4>3. e \in Nat \ {0} /\ Above(g, d, n) = e + 1
        <5>1. Above(g, d, n) \in Int
          BY PsddGraphAssumption DEF IsConformed, PsddNode, Above
        <5>2. QED
          BY <3>7, <3>8, <3>10, <4>2, <5>1
      <4>4. p[e] \in Nat /\ mS * mP = mP * mS
        BY <1>0, <3>2, <4>3, Products
      <4>5. AreShares(DOMAIN g[n].primes, z, h, g[n].parameters, term, f, p[e], mS, mP)
        <5>1. ASSUME NEW i \in DOMAIN g[n].primes
              PROVE  /\ z[i] \in Nat /\ h[i] \in Nat /\ z[i] * p[e] = h[i] * mS
                     /\ term[i] = z[i] * mP * g[n].parameters[i]
                     /\ f[i] = h[i] * g[n].parameters[i]
                     /\ g[n].parameters[i] \in Nat
          <6>1. x[i] = mP /\ b[i] = 0 /\ z[i] * p[e] = h[i] * mS
            BY <3>7, <3>10, <4>1, <4>2
          <6>2. b[i] + h[i] = h[i]
            BY <3>6, <6>1
          <6>3. QED
            BY <3>5, <3>6, <6>1, <6>2, Zenon
        <5>2. QED
          BY <5>1 DEF AreShares
      <4>6. mS * mP * One = Mass(g, p, n)
        BY <3>2, <4>4
      <4>7. E[n] * p[e + 1] = a[n] * Mass(g, p, n)
        <5>1. HaveShares(g, p, n, z, h, term, f, e, mS, mP)
          BY <3>2, <4>3, <4>5, <4>6 DEF HaveShares
        <5>2. SumFunctionOnSet(term, DOMAIN g[n].primes) * p[e + 1] =
              SumFunctionOnSet(f, DOMAIN g[n].primes) * Mass(g, p, n)
          BY <2>2, <5>1, ShareOfDecision
        <5>3. QED
          BY <3>4, <5>2
      <4>8. e + 1 \in Nat \ {0}
        BY <4>3
      <4>9. QED
        BY <4>1, <4>3, <4>7, <4>8, Zenon DEF IsShare
    <3>11. CASE v \notin P /\ v \notin S
      <4>1. v \notin VariablesUnder(g, n)
        BY <3>2, <3>11
      <4>2. PICK c : c = mP * mS
        BY Zenon
      <4>3. c \in Nat /\ c * One = Mass(g, p, n) /\ c * One = One * c
        BY <1>0, <3>2, <4>2, Products
      <4>4. ASSUME NEW i \in DOMAIN g[n].primes PROVE w[i] \in Nat /\ term[i] = w[i] * c /\ f[i] = 0
        <5>1. x[i] = mP /\ z[i] = mS /\ b[i] = 0 /\ h[i] = 0
          BY <3>7, <3>11
        <5>2. PICK wi : wi = w[i]
          BY Zenon
        <5>3. wi \in Nat /\ c * wi = wi * c /\ 0 * wi = 0 /\ 0 + 0 = 0
          BY <3>6, <4>3, <5>2, Products
        <5>4. term[i] = c * wi /\ f[i] = (0 + 0) * wi
          BY <3>6, <4>2, <5>1, <5>2, Zenon
        <5>5. QED
          BY <5>2, <5>3, <5>4
      <4>5. IsFiniteSet(DOMAIN g[n].primes)
        BY ElementsAreFinite
      <4>6. SumFunctionOnSet(term, DOMAIN g[n].primes) = SumFunctionOnSet(w, DOMAIN g[n].primes) * c
        BY <4>3, <4>4, <4>5, SumScaled
      <4>7. SumFunctionOnSet(w, DOMAIN g[n].primes) = One
        BY <2>2, <3>5, ParametersAddUp
      <4>8. SumFunctionOnSet(f, DOMAIN g[n].primes) = 0
        BY <4>4, <4>5, SumOfZeros
      <4>9. E[n] = Mass(g, p, n) /\ a[n] = 0
        BY <3>4, <4>3, <4>6, <4>7, <4>8
      <4>10. QED
        BY <4>1, <4>9 DEF IsShare
    <3>12. QED
      BY <3>9, <3>10, <3>11
  <2>3. QED
    BY <2>1, <2>2
<1>2. G = DOMAIN g
  <2>1. \A n \in DOMAIN g : (\A c \in DOMAIN g : c < n => c \in G) => n \in G
    BY <1>1
  <2> HIDE DEF G
  <2>2. G \in SUBSET DOMAIN g
    BY DEF G
  <2>3. QED
    BY <2>1, <2>2, AllNodes
<1>3. QED
  BY <1>2

\* The marginals of the two values of a variable.
AddUpAt(g, v, d, t, f) ==
  \A n \in DOMAIN g : g[n].type # "decision" =>
    /\ g[n].variable # v => t[n] = 0 /\ f[n] = 0
    /\ g[n].variable = v => t[n] + f[n] = One /\ g[n].depth = d
AddUpUnder(g, p, v, d, a, b, n) ==
  /\ v \in VariablesUnder(g, n) => /\ Above(g, d, n) \in Nat \ {0}
                                   /\ a[n] + b[n] = p[Above(g, d, n)]
  /\ v \notin VariablesUnder(g, n) => a[n] = 0 /\ b[n] = 0

LEMMA SharesAddUp ==
  ASSUME NEW g \in Structures, NEW p, ArePowers(p), NEW v, NEW d \in Nat, NEW t, NEW f,
         AddUpAt(g, v, d, t, f),
         NEW a \in [DOMAIN g -> Nat], AreMarginals(g, t, a),
         NEW b \in [DOMAIN g -> Nat], AreMarginals(g, f, b)
  PROVE  \A n \in DOMAIN g : AddUpUnder(g, p, v, d, a, b, n)
<1> DEFINE G == {n \in DOMAIN g : AddUpUnder(g, p, v, d, a, b, n)}
<1>0. p[1] = One /\ One \in Nat \ {0} /\ \A i \in Nat : p[i] \in Nat \ {0}
  BY PowersMultiply, NodeQueriesAssumption
<1>1. ASSUME NEW n \in DOMAIN g, \A c \in DOMAIN g : c < n => c \in G
      PROVE  AddUpUnder(g, p, v, d, a, b, n)
  <2>1. CASE g[n].type # "decision"
    <3>1. a[n] = t[n] /\ b[n] = f[n]
      BY <2>1 DEF AreMarginals, MarginalAt
    <3>2. VariablesUnder(g, n) = {g[n].variable}
      BY <2>1, VariablesOfNode
    <3>3. CASE g[n].variable # v
      BY <2>1, <3>1, <3>2, <3>3 DEF AddUpAt, AddUpUnder
    <3>4. CASE g[n].variable = v
      <4>1. a[n] + b[n] = One /\ g[n].depth = d
        BY <2>1, <3>1, <3>4 DEF AddUpAt
      <4>2. Above(g, d, n) = 1
        BY <4>1 DEF Above
      <4>3. QED
        BY <1>0, <3>2, <3>4, <4>1, <4>2 DEF AddUpUnder
    <3>5. QED
      BY <3>3, <3>4
  <2>2. CASE g[n].type = "decision"
    <3>1. PICK P, S : /\ VariablesUnder(g, n) = P \cup S /\ P \cap S = {}
                      /\ \A i \in DOMAIN g[n].primes : /\ VariablesUnder(g, g[n].primes[i]) = P
                                                       /\ VariablesUnder(g, g[n].subs[i]) = S
      BY <2>2, VariablesOfNode
    <3>2. PICK fa, fb, h, w, I :
            /\ I = DOMAIN g[n].primes
            /\ fa = [i \in I |-> (a[g[n].primes[i]] + a[g[n].subs[i]]) * g[n].parameters[i]]
            /\ fb = [i \in I |-> (b[g[n].primes[i]] + b[g[n].subs[i]]) * g[n].parameters[i]]
            /\ h = [i \in I |-> fa[i] + fb[i]]
            /\ w = g[n].parameters
      BY Zenon
    <3>3. a[n] = SumFunctionOnSet(fa, I) /\ b[n] = SumFunctionOnSet(fb, I)
      BY <2>2, <3>2, Zenon DEF AreMarginals, MarginalAt
    <3>4. IsFiniteSet(I) /\ SumFunctionOnSet(w, I) = One
      BY <2>2, <3>2, ElementsAreFinite, ParametersAddUp
    <3>5. PICK e : e = Above(g, d, n) - 1
      BY Zenon
    <3>6. ASSUME NEW i \in I
          PROVE  /\ w[i] \in Nat /\ fa[i] \in Nat /\ fb[i] \in Nat /\ h[i] = fa[i] + fb[i]
                 /\ v \in P \cup S => e \in Nat /\ h[i] = w[i] * p[e]
                 /\ v \notin P \cup S => fa[i] = 0 /\ fb[i] = 0
      <4>1. PICK k, m : k = g[n].primes[i] /\ m = g[n].subs[i]
        BY Zenon
      <4>2. /\ k \in G /\ m \in G /\ k \in DOMAIN g /\ m \in DOMAIN g
            /\ k \in ChildrenIn(g, n) /\ m \in ChildrenIn(g, n)
        BY <1>1, <3>2, <4>1, GraphFacts
      <4>3. AddUpUnder(g, p, v, d, a, b, k) /\ AddUpUnder(g, p, v, d, a, b, m)
        BY <4>2
      <4>4. Above(g, d, k) = e /\ Above(g, d, m) = e
        <5>1. /\ g[k].depth = g[n].depth + 1 /\ g[m].depth = g[n].depth + 1 /\ g[n].depth \in Nat
          BY <4>2, Conformed
        <5>2. QED
          BY <3>5, <5>1 DEF Above
      <4>5. VariablesUnder(g, k) = P /\ VariablesUnder(g, m) = S
        BY <3>1, <3>2, <4>1
      <4>6. /\ v \in P => e \in Nat \ {0} /\ a[k] + b[k] = p[e]
            /\ v \notin P => a[k] = 0 /\ b[k] = 0
            /\ v \in S => e \in Nat \ {0} /\ a[m] + b[m] = p[e]
            /\ v \notin S => a[m] = 0 /\ b[m] = 0
        BY <4>3, <4>4, <4>5, Zenon DEF AddUpUnder
      <4>7. PICK wi, ak, am, bk, bm : wi = w[i] /\ ak = a[k] /\ am = a[m] /\ bk = b[k] /\ bm = b[m]
        BY Zenon
      <4>8. /\ wi \in Nat /\ ak \in Nat /\ am \in Nat /\ bk \in Nat /\ bm \in Nat
            /\ ak + am \in Nat /\ bk + bm \in Nat
        <5>1. wi \in Nat
          BY <2>2, <3>2, <4>7, ParameterFacts
        <5>2. ak \in Nat /\ am \in Nat /\ bk \in Nat /\ bm \in Nat
          BY <4>2, <4>7
        <5>3. QED
          BY <5>1, <5>2
      <4>9. fa[i] = (ak + am) * wi /\ fb[i] = (bk + bm) * wi /\ h[i] = fa[i] + fb[i]
        BY <3>2, <4>1, <4>7, Zenon
      <4>10. fa[i] \in Nat /\ fb[i] \in Nat /\ h[i] = ((ak + am) + (bk + bm)) * wi
        BY <4>8, <4>9, Products
      <4>11. ASSUME v \in P \cup S PROVE e \in Nat /\ h[i] = w[i] * p[e]
        <5>1. e \in Nat /\ (ak + am) + (bk + bm) = p[e]
          BY <3>1, <4>6, <4>7, <4>8, <4>11
        <5>2. PICK q : q = p[e]
          BY Zenon
        <5>3. q \in Nat /\ q * wi = wi * q
          BY <1>0, <4>8, <5>1, <5>2, Products
        <5>4. QED
          BY <4>7, <4>10, <5>1, <5>2, <5>3
      <4>12. ASSUME v \notin P \cup S PROVE fa[i] = 0 /\ fb[i] = 0
        <5>1. ak + am = 0 /\ bk + bm = 0
          BY <4>6, <4>7, <4>12
        <5>2. 0 * wi = 0
          BY <4>8, Products
        <5>3. QED
          BY <4>9, <5>1, <5>2
      <4>13. QED
        BY <4>7, <4>8, <4>9, <4>10, <4>11, <4>12
    <3>7. CASE v \in P \cup S
      <4>1. e \in Nat
        <5>1. PICK i : i \in I
          BY <2>2, <3>2, HasElements
        <5>2. QED
          BY <3>6, <3>7, <5>1
      <4>2. SumFunctionOnSet(h, I) = SumFunctionOnSet(fa, I) + SumFunctionOnSet(fb, I)
        BY <3>4, <3>6, SumOfSums
      <4>3. SumFunctionOnSet(h, I) = SumFunctionOnSet(w, I) * p[e]
        <5>1. PICK q : q = p[e]
          BY Zenon
        <5>2. q \in Nat /\ \A i \in I : w[i] \in Nat /\ h[i] = w[i] * q
          BY <1>0, <3>6, <3>7, <4>1, <5>1
        <5>3. SumFunctionOnSet(h, I) = SumFunctionOnSet(w, I) * q
          BY <3>4, <5>2, SumScaled
        <5>4. QED
          BY <5>1, <5>3
      <4>4. One * p[e] = p[e + 1]
        BY <4>1 DEF ArePowers
      <4>5. Above(g, d, n) = e + 1 /\ e + 1 \in Nat \ {0}
        <5>1. Above(g, d, n) \in Int
          BY Conformed DEF Above
        <5>2. QED
          BY <3>5, <4>1, <5>1
      <4>6. a[n] + b[n] = p[e + 1]
        BY <3>3, <3>4, <4>2, <4>3, <4>4
      <4>7. v \in VariablesUnder(g, n)
        BY <3>1, <3>7
      <4>8. QED
        BY <4>5, <4>6, <4>7, Zenon DEF AddUpUnder
    <3>8. CASE v \notin P \cup S
      <4>1. a[n] = 0 /\ b[n] = 0
        BY <3>3, <3>4, <3>6, <3>8, SumOfZeros
      <4>2. v \notin VariablesUnder(g, n)
        BY <3>1, <3>8
      <4>3. QED
        BY <4>1, <4>2, Zenon DEF AddUpUnder
    <3>9. QED
      BY <3>7, <3>8
  <2>3. QED
    BY <2>1, <2>2
<1>2. G = DOMAIN g
  <2>1. \A n \in DOMAIN g : (\A c \in DOMAIN g : c < n => c \in G) => n \in G
    BY <1>1
  <2> HIDE DEF G
  <2>2. G \in SUBSET DOMAIN g
    BY DEF G
  <2>3. QED
    BY <2>1, <2>2, AllNodes
<1>3. QED
  BY <1>2

\* A value of a variable: what its leaves have for it, and that it is observed.
Values == {"false", "true"}
LeafOf(g, v, b) == [n \in DOMAIN g |-> IF g[n].variable # v THEN 0
                                       ELSE IF b = "true" THEN TrueOf(g)[n] ELSE FalseOf(g)[n]]
Observed(v, b) == [variables |-> {v}, true |-> IF b = "true" THEN {v} ELSE {}]
SeenLeaf(g, v, b) == EvidenceLeaf(g, TrueOf(g), FalseOf(g), Observed(v, b))

LEMMA LeavesOfValue ==
  ASSUME NEW g \in Structures, NEW v
  PROVE  /\ \A b \in Values : \A n \in DOMAIN g : LeafOf(g, v, b)[n] \in Nat
         /\ \A n \in DOMAIN g : g[n].type # "decision" /\ g[n].variable = v =>
              /\ AddUpAt(g, v, g[n].depth, LeafOf(g, v, "true"), LeafOf(g, v, "false"))
              /\ \A b \in Values : AreLeavesOf(g, v, g[n].depth, SeenLeaf(g, v, b), LeafOf(g, v, b))
<1>1. ASSUME NEW n \in DOMAIN g
      PROVE  /\ TrueOf(g)[n] \in Nat /\ FalseOf(g)[n] \in Nat
             /\ g[n].type # "decision" => TrueOf(g)[n] + FalseOf(g)[n] = One
  <2>1. TrueOf(g)[n] \in Nat /\ FalseOf(g)[n] \in Nat
    BY FactorsAreNumbers DEF AreFactors, AreNumbers
  <2>2. CASE g[n].type = "literal"
    <3>1. /\ TrueOf(g)[n] = IF g[n].sign THEN One ELSE 0
          /\ FalseOf(g)[n] = IF g[n].sign THEN 0 ELSE One
      BY <2>2 DEF TrueOf, FalseOf
    <3>2. One \in Nat
      BY NodeQueriesAssumption
    <3>3. QED
      BY <2>1, <2>2, <3>1, <3>2
  <2>3. CASE g[n].type = "top"
    <3>1. TrueOf(g)[n] = g[n].parameters[1] /\ FalseOf(g)[n] = g[n].parameters[2]
      BY <2>3 DEF TrueOf, FalseOf
    <3>2. QED
      BY <2>1, <2>3, <3>1, ParameterFacts
  <2>4. QED
    BY <2>1, <2>2, <2>3, GraphFacts
<1>2. \A b \in Values : \A n \in DOMAIN g : LeafOf(g, v, b)[n] \in Nat
  BY <1>1 DEF LeafOf
<1>3. ASSUME NEW n \in DOMAIN g, g[n].type # "decision", g[n].variable = v
      PROVE  /\ AddUpAt(g, v, g[n].depth, LeafOf(g, v, "true"), LeafOf(g, v, "false"))
             /\ \A b \in Values : AreLeavesOf(g, v, g[n].depth, SeenLeaf(g, v, b), LeafOf(g, v, b))
  <2>1. ASSUME NEW m \in DOMAIN g, g[m].type # "decision", g[m].variable = v PROVE g[m].depth = g[n].depth
    BY <1>3, <2>1, LevelAssumption DEF VariablesHaveLevels
  <2>2. AddUpAt(g, v, g[n].depth, LeafOf(g, v, "true"), LeafOf(g, v, "false"))
    BY <1>1, <2>1 DEF AddUpAt, LeafOf
  <2>3. ASSUME NEW b \in Values PROVE AreLeavesOf(g, v, g[n].depth, SeenLeaf(g, v, b), LeafOf(g, v, b))
    <3>1. ASSUME NEW m \in DOMAIN g, g[m].type # "decision"
          PROVE  SeenLeaf(g, v, b)[m] = IF g[m].variable # v THEN One
                                        ELSE IF b = "true" THEN TrueOf(g)[m] ELSE FalseOf(g)[m]
      <4>1. Observed(v, b).variables = {v} /\ Observed(v, b).true = IF b = "true" THEN {v} ELSE {}
        BY DEF Observed
      <4>2. SeenLeaf(g, v, b)[m] = IF g[m].variable \notin {v} THEN TrueOf(g)[m] + FalseOf(g)[m]
                                   ELSE IF g[m].variable \in Observed(v, b).true
                                     THEN TrueOf(g)[m] ELSE FalseOf(g)[m]
        BY <4>1, Zenon DEF SeenLeaf, EvidenceLeaf
      <4>3. QED
        BY <1>1, <3>1, <4>1, <4>2
    <3>2. QED
      BY <2>1, <3>1 DEF AreLeavesOf, LeafOf
  <2>4. QED
    BY <2>2, <2>3
<1>4. QED
  BY <1>2, <1>3

LEMMA MarginalsAreFractions ==
  ASSUME NEW g \in Structures, NEW n \in DOMAIN g, NEW v \in VariablesUnder(g, n),
         NEW a \in [DOMAIN g -> Nat], AreMarginals(g, LeafOf(g, v, "true"), a),
         NEW b \in [DOMAIN g -> Nat], AreMarginals(g, LeafOf(g, v, "false"), b)
  PROVE  /\ a[n] * Probabilities(g, Observed(v, "false"))[n] =
            b[n] * Probabilities(g, Observed(v, "true"))[n]
         /\ a[n] + b[n] > 0
<1>1. PICK m \in DOMAIN g : g[m].type # "decision" /\ g[m].variable = v
  BY DEF VariablesUnder, Below
<1>2. PICK p : ArePowers(p)
  BY PowersExist
<1>3. PICK d, e, t, f : /\ d = g[m].depth /\ e = Above(g, d, n)
                        /\ t = Probabilities(g, Observed(v, "true"))
                        /\ f = Probabilities(g, Observed(v, "false"))
  BY Zenon
<1>4. d \in Nat
  BY <1>3, Conformed
<1>5. /\ AddUpAt(g, v, d, LeafOf(g, v, "true"), LeafOf(g, v, "false"))
      /\ AreLeavesOf(g, v, d, SeenLeaf(g, v, "true"), LeafOf(g, v, "true"))
      /\ AreLeavesOf(g, v, d, SeenLeaf(g, v, "false"), LeafOf(g, v, "false"))
  BY <1>1, <1>3, LeavesOfValue DEF Values
<1>6. /\ t \in [DOMAIN g -> Nat] /\ AreValues(g, SeenLeaf(g, v, "true"), ParametersOf(g), t)
      /\ f \in [DOMAIN g -> Nat] /\ AreValues(g, SeenLeaf(g, v, "false"), ParametersOf(g), f)
  BY <1>3, ProbabilitiesFacts DEF SeenLeaf
<1>7. IsShare(g, p, v, d, t, a, n) /\ IsShare(g, p, v, d, f, b, n)
  BY <1>2, <1>4, <1>5, <1>6, SharesOfNodes
<1>8. AddUpUnder(g, p, v, d, a, b, n)
  BY <1>2, <1>4, <1>5, SharesAddUp
<1>9. PICK x, y, tn, fn, q, mass :
        x = a[n] /\ y = b[n] /\ tn = t[n] /\ fn = f[n] /\ q = p[e] /\ mass = Mass(g, p, n)
  BY Zenon
<1>10. e \in Nat \ {0} /\ tn * q = x * mass /\ fn * q = y * mass /\ x + y = q
  BY <1>3, <1>7, <1>8, <1>9, Zenon DEF IsShare, AddUpUnder
<1>11. x \in Nat /\ y \in Nat /\ tn \in Nat /\ fn \in Nat /\ q \in Nat \ {0} /\ mass \in Nat
  <2>1. q \in Nat \ {0}
    BY <1>2, <1>9, <1>10, PowersMultiply
  <2>2. mass \in Nat
    <3>1. 2 * Size(g, n) - 1 \in Nat
      BY SizesOfNodes
    <3>2. QED
      BY <1>2, <1>9, <3>1, PowersMultiply DEF Mass
  <2>3. QED
    BY <1>6, <1>9, <2>1, <2>2
<1>12. (x * fn) * q = (y * tn) * q
  <2>1. (x * fn) * q = x * (fn * q) /\ (y * tn) * q = y * (tn * q)
    BY <1>11, Products
  <2>2. x * (y * mass) = y * (x * mass)
    BY <1>11, Products
  <2>3. QED
    BY <1>10, <2>1, <2>2
<1>13. x * fn = y * tn
  <2>1. x * fn \in Nat /\ y * tn \in Nat
    BY <1>11, Products
  <2>2. QED
    BY <1>11, <1>12, <2>1, Cancelled
<1>14. x + y > 0
  BY <1>10, <1>11
<1>15. QED
  BY <1>3, <1>9, <1>13, <1>14

-----------------------------------------------------------------------------
(***************************************************************************)
(* GetMarginals.  What a derivative at a place of the list is multiplied   *)
(* with is the marginal of the node there: a decision node passes on to    *)
(* its children what it takes away, and a leaf adds it to the marginals.   *)
(***************************************************************************)
Pending(list, der, a) == [k \in DOMAIN list |-> der[k - 1] * a[list[k]]]
PlacesFrom(list, i) == {k \in DOMAIN list : k >= i}
LeavesBefore(g, list, i) ==
  {g[list[k]].variable : k \in {j \in DOMAIN list : j < i /\ g[list[j]].type # "decision"}}
ValueIn(m, v, b) == IF v \in DOMAIN m THEN m[v][b] ELSE 0
AreMarginalsOf(g, list, i, m) ==
  /\ DOMAIN m = LeavesBefore(g, list, i)
  /\ \A v \in DOMAIN m : \A b \in Values : m[v][b] \in Nat
IsPassedOn(g, list, i, der, m, v, b, a) ==
  AreMarginals(g, LeafOf(g, v, b), a) =>
    ValueIn(m, v, b) + SumFunctionOnSet(Pending(list, der, a), PlacesFrom(list, i)) = a[list[1]]
HasNumbers(list, der) == DOMAIN der = 0..Len(list) - 1 /\ \A j \in DOMAIN der : der[j] \in Nat
AreOf(list, der, a, f) ==
  \A k \in DOMAIN list : /\ f[k] = der[k - 1] * a[list[k]] /\ f[k] \in Nat
                         /\ der[k - 1] \in Nat /\ a[list[k]] \in Nat
DerivedTo(g, list, i, der, m) ==
  /\ HasNumbers(list, der)
  /\ AreMarginalsOf(g, list, i, m)
  /\ \A v : \A b \in Values : \A a \in [DOMAIN g -> Nat] : IsPassedOn(g, list, i, der, m, v, b, a)
IsListOf(g, list) ==
  /\ Len(list) \in Nat /\ DOMAIN list = 1..Len(list)
  /\ \A k \in DOMAIN list : list[k] \in DOMAIN g
  /\ \A k, j \in DOMAIN list : list[k] = list[j] => k = j

\* What the children get of a derivative of 1 adds up to the marginal of the node.
PassedTo(g, list, n, j) ==
  SumFunctionOnSet(g[n].parameters,
                   {k \in DOMAIN g[n].primes : list[j + 1] \in {g[n].primes[k], g[n].subs[k]}})

HasChildrenIn(g, list, K, n) ==
  /\ IsFiniteSet(K) /\ K \subseteq Nat \ {0}
  /\ \A k \in K : list[k] \in DOMAIN g
  /\ \A k, j \in K : list[k] = list[j] => k = j
  /\ \A c \in ChildrenIn(g, n) : \E k \in K : list[k] = c
ArePassedTo(g, list, K, n, a, h) == \A k \in K : h[k] = PassedTo(g, list, n, k - 1) * a[list[k]]

LEMMA PassedOnAddsUp ==
  ASSUME NEW g \in Structures, NEW n \in DOMAIN g, g[n].type = "decision", NEW list, NEW K,
         HasChildrenIn(g, list, K, n),
         NEW leaf, NEW a \in [DOMAIN g -> Nat], AreMarginals(g, leaf, a),
         NEW h, ArePassedTo(g, list, K, n, a, h)
  PROVE  SumFunctionOnSet(h, K) = a[n]
<1> USE DEF HasChildrenIn, ArePassedTo
<1>1. PICK I, w, primes, subs : I = DOMAIN g[n].primes /\ w = g[n].parameters
                               /\ primes = g[n].primes /\ subs = g[n].subs
  BY Zenon
<1>2. IsFiniteSet(I) /\ \A i \in I : w[i] \in Nat
  BY <1>1, ElementsAreFinite, ParameterFacts
<1> DEFINE Share(k, i) == IF list[k] \in {primes[i], subs[i]} THEN w[i] * a[list[k]] ELSE 0
<1>3. PICK F, H, columns :
        /\ F = [k \in K |-> [i \in I |-> Share(k, i)]]
        /\ H = [i \in I |-> [k \in K |-> Share(k, i)]]
        /\ columns = [i \in I |-> (a[primes[i]] + a[subs[i]]) * w[i]]
  <2> HIDE DEF Share
  <2>1. QED
    BY Zenon
<1>4. ASSUME NEW k \in K, NEW i \in I
      PROVE  F[k][i] \in Nat /\ H[i][k] = F[k][i] /\ F[k][i] = Share(k, i)
  <2>1. F[k][i] = Share(k, i) /\ H[i][k] = Share(k, i)
    <3> HIDE DEF Share
    <3>1. QED
      BY <1>3
  <2>2. w[i] * a[list[k]] \in Nat
    <3>1. PICK x, y : x = w[i] /\ y = a[list[k]]
      BY Zenon
    <3>2. x \in Nat /\ y \in Nat
      BY <1>2, <3>1
    <3>3. QED
      BY <3>1, <3>2, Products
  <2>3. QED
    BY <2>1, <2>2
<1>5. AreTransposed(F, H, K, I)
  BY <1>4 DEF AreTransposed
<1>6. ASSUME NEW k \in K
      PROVE  h[k] = SumFunctionOnSet(F[k], I) /\ PassedTo(g, list, n, k - 1) \in Nat
  <2>1. PICK T, q, y : /\ T = {i \in I : list[k] \in {primes[i], subs[i]}} /\ y = a[list[k]]
                       /\ q = [i \in I |-> IF i \in T THEN w[i] ELSE 0]
    BY Zenon
  <2>2. k - 1 + 1 = k /\ y \in Nat
    BY <2>1
  <2>3. PassedTo(g, list, n, k - 1) = SumFunctionOnSet(w, T)
    BY <1>1, <2>1, <2>2, Zenon DEF PassedTo
  <2>4. \A i \in I : w[i] \in Nat /\ q[i] = (IF i \in T THEN w[i] ELSE 0)
    BY <1>2, <2>1
  <2>5. SumFunctionOnSet(q, I) = SumFunctionOnSet(w, T)
    <3>1. T \subseteq I
      BY <2>1
    <3>2. QED
      BY <1>2, <2>4, <3>1, SumOfSome
  <2>6. ASSUME NEW i \in I PROVE q[i] \in Nat /\ F[k][i] = q[i] * y
    <3>1. 0 * y = 0
      BY <2>2, Products
    <3>2. F[k][i] = Share(k, i) /\ (i \in T <=> list[k] \in {primes[i], subs[i]})
      BY <1>4, <2>1
    <3>3. QED
      BY <2>1, <2>4, <3>1, <3>2
  <2>7. SumFunctionOnSet(F[k], I) = SumFunctionOnSet(q, I) * y
    <3>1. PICK fk : fk = F[k]
      BY Zenon
    <3>2. \A i \in I : q[i] \in Nat /\ fk[i] = q[i] * y
      BY <2>6, <3>1
    <3>3. SumFunctionOnSet(fk, I) = SumFunctionOnSet(q, I) * y
      BY <1>2, <2>2, <3>2, SumScaled
    <3>4. QED
      BY <3>1, <3>3
  <2>8. SumFunctionOnSet(q, I) \in Nat
    BY <1>2, <2>6, SumIsNat
  <2>9. QED
    BY <2>1, <2>3, <2>5, <2>7, <2>8
<1>7. AreSumsOver(h, F, K, I)
  BY <1>6 DEF AreSumsOver
<1>8. ASSUME NEW i \in I PROVE columns[i] = SumFunctionOnSet(H[i], K)
  <2>1. primes[i] \in ChildrenIn(g, n) /\ subs[i] \in ChildrenIn(g, n)
    BY <1>1, GraphFacts
  <2>2. PICK k \in K, j \in K : list[k] = primes[i] /\ list[j] = subs[i]
    BY <2>1
  <2>3. primes[i] # subs[i]
    <3>1. PICK P, S : /\ VariablesUnder(g, n) = P \cup S /\ P \cap S = {}
                      /\ \A e \in DOMAIN g[n].primes : /\ VariablesUnder(g, g[n].primes[e]) = P
                                                       /\ VariablesUnder(g, g[n].subs[e]) = S
      BY ONLY g \in Structures, n \in DOMAIN g, g[n].type = "decision", VariablesOfNode
    <3>2. VariablesUnder(g, primes[i]) \cap VariablesUnder(g, subs[i]) = {}
      BY <1>1, <3>1
    <3>3. Size(g, primes[i]) # 0
      BY <2>2, SizesOfNodes
    <3>4. VariablesUnder(g, primes[i]) # {}
      BY <3>3, FS_EmptySet DEF Size
    <3>5. QED
      BY <3>2, <3>4
  <2>4. k # j
    BY <2>2, <2>3
  <2>5. PICK hi, x, y, z : hi = H[i] /\ x = a[primes[i]] /\ y = a[subs[i]] /\ z = w[i]
    BY Zenon
  <2>6. \A e \in K : hi[e] = Share(e, i)
    BY <1>4, <2>5
  <2>7. \A e \in K : e # k /\ e # j => hi[e] = 0
    BY <2>2, <2>6
  <2>8. hi[k] = z * x /\ hi[j] = z * y
    BY <2>2, <2>5, <2>6
  <2>9. x \in Nat /\ y \in Nat /\ z \in Nat
    BY <1>2, <2>2, <2>5
  <2>10. z * x \in Nat /\ z * y \in Nat /\ z * x + z * y = (x + y) * z
    BY <2>9, Products
  <2>11. SumFunctionOnSet(hi, K) = hi[k] + hi[j]
    <3>1. hi[k] \in Nat /\ hi[j] \in Nat
      BY <2>8, <2>10
    <3>2. IsFiniteSet(K) /\ k \in K /\ j \in K
      OBVIOUS
    <3>3. QED
      BY ONLY <2>4, <2>7, <3>1, <3>2, SumOfTwo
  <2>12. columns[i] = (x + y) * z
    BY <1>3, <2>5
  <2>13. QED
    BY <2>5, <2>8, <2>10, <2>11, <2>12
<1>9. AreSumsOver(columns, H, I, K)
  BY <1>8 DEF AreSumsOver
<1>10. SumFunctionOnSet(h, K) = SumFunctionOnSet(columns, I)
  BY <1>2, <1>5, <1>7, <1>9, SumsExchange
<1>11. a[n] = SumFunctionOnSet(columns, I)
  BY <1>1, <1>3, Zenon DEF AreMarginals, MarginalAt
<1>12. QED
  BY <1>6, <1>10, <1>11

LEMMA PendingIsNat ==
  ASSUME NEW g, NEW list, IsListOf(g, list), NEW der, HasNumbers(list, der), NEW a \in [DOMAIN g -> Nat],
         NEW f, f = Pending(list, der, a)
  PROVE  AreOf(list, der, a, f)
<1>1. ASSUME NEW k \in DOMAIN list
      PROVE  /\ f[k] = der[k - 1] * a[list[k]] /\ f[k] \in Nat
             /\ der[k - 1] \in Nat /\ a[list[k]] \in Nat
  <2>1. k - 1 \in DOMAIN der /\ list[k] \in DOMAIN g
    BY DEF IsListOf, HasNumbers
  <2>2. PICK x, y : x = der[k - 1] /\ y = a[list[k]]
    BY Zenon
  <2>3. x \in Nat /\ y \in Nat
    BY <2>1, <2>2 DEF HasNumbers
  <2>4. x * y \in Nat
    BY <2>3, Products
  <2>5. f[k] = x * y
    BY <2>2, Zenon DEF Pending
  <2>6. QED
    BY <2>2, <2>3, <2>4, <2>5
<1>2. QED
  BY <1>1 DEF AreOf

LEMMA PlacesStep ==
  ASSUME NEW g, NEW list, IsListOf(g, list), NEW i \in DOMAIN list
  PROVE  /\ IsFiniteSet(PlacesFrom(list, i)) /\ IsFiniteSet(PlacesFrom(list, i + 1))
         /\ PlacesFrom(list, i) = PlacesFrom(list, i + 1) \cup {i} /\ i \notin PlacesFrom(list, i + 1)
         /\ PlacesFrom(list, i) \subseteq DOMAIN list /\ PlacesFrom(list, i + 1) \subseteq DOMAIN list
         /\ LeavesBefore(g, list, i + 1) =
              LeavesBefore(g, list, i) \cup (IF g[list[i]].type # "decision" THEN {g[list[i]].variable} ELSE {})
<1>1. IsFiniteSet(DOMAIN list)
  BY FS_Interval DEF IsListOf
<1>2. PlacesFrom(list, i) \subseteq DOMAIN list /\ PlacesFrom(list, i + 1) \subseteq DOMAIN list
  BY DEF PlacesFrom
<1>3. IsFiniteSet(PlacesFrom(list, i)) /\ IsFiniteSet(PlacesFrom(list, i + 1))
  BY <1>1, <1>2, FS_Subset
<1>4. \A k \in DOMAIN list : (k >= i <=> k >= i + 1 \/ k = i) /\ (k < i + 1 <=> k < i \/ k = i)
  BY DEF IsListOf
<1>5. PlacesFrom(list, i) = PlacesFrom(list, i + 1) \cup {i} /\ i \notin PlacesFrom(list, i + 1)
  BY <1>4 DEF PlacesFrom, IsListOf
<1>6. \A v : v \in LeavesBefore(g, list, i + 1) <=>
               v \in LeavesBefore(g, list, i) \/ (g[list[i]].type # "decision" /\ v = g[list[i]].variable)
  BY <1>4 DEF LeavesBefore
<1>7. QED
  BY <1>2, <1>3, <1>5, <1>6

LEMMA DerivedAtFirst ==
  ASSUME NEW g, NEW list, IsListOf(g, list), 1 \in DOMAIN list, NEW der,
         der = [i \in 0..Len(list) - 1 |-> IF i = 0 THEN 1 ELSE 0]
  PROVE  DerivedTo(g, list, 1, der, <<>>)
<1>1. HasNumbers(list, der)
  BY DEF HasNumbers
<1>2. DOMAIN <<>> = {}
  OBVIOUS
<1>3. LeavesBefore(g, list, 1) = {}
  BY DEF LeavesBefore, IsListOf
<1>4. ASSUME NEW v, NEW b \in Values, NEW a \in [DOMAIN g -> Nat] PROVE IsPassedOn(g, list, 1, der, <<>>, v, b, a)
  <2>1. PICK f, K : f = Pending(list, der, a) /\ K = PlacesFrom(list, 1)
    BY Zenon
  <2>2. \A k \in DOMAIN list : f[k] = der[k - 1] * a[list[k]] /\ f[k] \in Nat /\ a[list[k]] \in Nat
    <3>1. AreOf(list, der, a, f)
      BY ONLY <1>1, <2>1, IsListOf(g, list), a \in [DOMAIN g -> Nat], PendingIsNat
    <3>2. QED
      BY ONLY <3>1, Zenon DEF AreOf
  <2>3. K \subseteq DOMAIN list /\ IsFiniteSet(K) /\ 1 \in K
    BY <2>1, PlacesStep
  <2>4. f[1] = a[list[1]]
    <3>1. PICK y : y = a[list[1]]
      BY Zenon
    <3>2. y \in Nat /\ 1 * y = y
      BY <2>2, <3>1, Products
    <3>3. 1 - 1 = 0 /\ der[0] = 1
      BY DEF IsListOf
    <3>4. f[1] = 1 * y
      BY <2>2, <3>1, <3>3
    <3>5. QED
      BY <3>1, <3>2, <3>4
  <2>5. ASSUME NEW k \in K, k # 1 PROVE f[k] = 0
    <3>1. PICK y : y = a[list[k]]
      BY Zenon
    <3>2. y \in Nat /\ 0 * y = 0
      BY <2>2, <2>3, <3>1, Products
    <3>3. k - 1 \in 0..Len(list) - 1 /\ k - 1 # 0
      BY <2>3, <2>5 DEF IsListOf
    <3>4. f[k] = 0 * y
      BY <2>2, <2>3, <3>1, <3>3
    <3>5. QED
      BY <3>2, <3>4
  <2>6. SumFunctionOnSet(f, K) = f[1]
    BY <2>2, <2>3, <2>5, SumOfOne
  <2>7. ValueIn(<<>>, v, b) = 0 /\ f[1] \in Nat
    BY <1>2, <2>2 DEF ValueIn
  <2>8. ValueIn(<<>>, v, b) + SumFunctionOnSet(f, K) = a[list[1]]
    BY <2>4, <2>6, <2>7
  <2>9. QED
    BY <2>1, <2>8 DEF IsPassedOn
<1>5. QED
  BY <1>1, <1>2, <1>3, <1>4 DEF DerivedTo, AreMarginalsOf

LEMMA DerivedAtLast ==
  ASSUME NEW g, NEW list, IsListOf(g, list), NEW der, NEW m, DerivedTo(g, list, Len(list) + 1, der, m)
  PROVE  /\ AreMarginalsOf(g, list, Len(list) + 1, m)
         /\ \A v : \A b \in Values : \A a \in [DOMAIN g -> Nat] :
              AreMarginals(g, LeafOf(g, v, b), a) => ValueIn(m, v, b) = a[list[1]]
<1>1. PlacesFrom(list, Len(list) + 1) = {}
  BY DEF PlacesFrom, IsListOf
<1>2. AreMarginalsOf(g, list, Len(list) + 1, m)
  BY DEF DerivedTo
<1>3. ASSUME NEW v, NEW b \in Values, NEW a \in [DOMAIN g -> Nat], AreMarginals(g, LeafOf(g, v, b), a)
      PROVE  ValueIn(m, v, b) = a[list[1]]
  <2>1. IsPassedOn(g, list, Len(list) + 1, der, m, v, b, a)
    BY DEF DerivedTo
  <2>2. PICK f : f = Pending(list, der, a)
    BY Zenon
  <2>3. ValueIn(m, v, b) + SumFunctionOnSet(f, {}) = a[list[1]]
    BY <1>1, <1>3, <2>1, <2>2 DEF IsPassedOn
  <2>4. SumFunctionOnSet(f, {}) = 0
    BY SumOfNone
  <2>5. ValueIn(m, v, b) \in Nat
    BY <1>2 DEF ValueIn, AreMarginalsOf
  <2>6. QED
    BY <2>3, <2>4, <2>5
<1>4. QED
  BY <1>2, <1>3

LEMMA DerivedPastDecision ==
  ASSUME NEW g \in Structures, NEW list, IsListOf(g, list), NEW i \in DOMAIN list,
         NEW der, NEW m, DerivedTo(g, list, i, der, m), NEW n, n = list[i], g[n].type = "decision",
         \A c \in ChildrenIn(g, n) : \E k \in PlacesFrom(list, i + 1) : list[k] = c,
         NEW next, next = [j \in DOMAIN der |-> der[j] + der[i - 1] * PassedTo(g, list, n, j)]
  PROVE  DerivedTo(g, list, i + 1, next, m)
<1>1. PICK K, d : K = PlacesFrom(list, i + 1) /\ d = der[i - 1]
  BY Zenon
<1>2. /\ IsFiniteSet(K) /\ K \subseteq DOMAIN list /\ i \notin K /\ i \in Nat \ {0}
      /\ PlacesFrom(list, i) = K \cup {i} /\ IsFiniteSet(PlacesFrom(list, i))
      /\ LeavesBefore(g, list, i + 1) = LeavesBefore(g, list, i)
  <2>1. /\ IsFiniteSet(PlacesFrom(list, i)) /\ IsFiniteSet(PlacesFrom(list, i + 1))
        /\ PlacesFrom(list, i) = PlacesFrom(list, i + 1) \cup {i} /\ i \notin PlacesFrom(list, i + 1)
        /\ PlacesFrom(list, i + 1) \subseteq DOMAIN list
        /\ LeavesBefore(g, list, i + 1) = LeavesBefore(g, list, i) \cup
             (IF g[list[i]].type # "decision" THEN {g[list[i]].variable} ELSE {})
    BY PlacesStep
  <2>2. i \in Nat \ {0}
    BY DEF IsListOf
  <2>3. QED
    BY <1>1, <2>1, <2>2
<1>3. /\ Len(list) \in Nat /\ DOMAIN list = 1..Len(list) /\ n \in DOMAIN g
      /\ \A k \in DOMAIN list : list[k] \in DOMAIN g /\ k \in Nat \ {0}
      /\ \A k, j \in DOMAIN list : list[k] = list[j] => k = j
  BY DEF IsListOf
<1>4. DOMAIN der = 0..Len(list) - 1 /\ \A j \in DOMAIN der : der[j] \in Nat
  BY DEF DerivedTo, HasNumbers
<1>5. d \in Nat
  BY <1>1, <1>2, <1>3, <1>4
<1>6. \A j \in DOMAIN der : PassedTo(g, list, n, j) \in Nat
  <2>1. ASSUME NEW j \in DOMAIN der PROVE PassedTo(g, list, n, j) \in Nat
    <3>1. PICK T, w : w = g[n].parameters /\
                      T = {k \in DOMAIN g[n].primes : list[j + 1] \in {g[n].primes[k], g[n].subs[k]}}
      BY Zenon
    <3>2. \A k \in DOMAIN g[n].primes : w[k] \in Nat
      BY <1>3, <3>1, ParameterFacts
    <3>3. T \subseteq DOMAIN g[n].primes
      BY <3>1
    <3>4. IsFiniteSet(T)
      BY <1>3, <3>3, ElementsAreFinite, FS_Subset
    <3>5. SumFunctionOnSet(w, T) \in Nat
      BY <3>2, <3>3, <3>4, SumIsNat
    <3>6. QED
      BY <3>1, <3>5 DEF PassedTo
  <2>2. QED
    BY <2>1
<1>7. ASSUME NEW j \in DOMAIN der
      PROVE  next[j] = der[j] + d * PassedTo(g, list, n, j) /\ next[j] \in Nat
  <2>1. PICK x : x = PassedTo(g, list, n, j)
    BY Zenon
  <2>2. x \in Nat /\ d * x \in Nat
    BY <1>5, <1>6, <2>1, Products
  <2>3. next[j] = der[j] + d * PassedTo(g, list, n, j)
    BY <1>1, Zenon
  <2>4. QED
    BY <1>4, <2>1, <2>2, <2>3
<1>8. DOMAIN next = 0..Len(list) - 1 /\ \A j \in DOMAIN next : next[j] \in Nat
  BY <1>4, <1>7
<1>12. HasNumbers(list, der) /\ HasNumbers(list, next)
  BY <1>4, <1>8 DEF HasNumbers
<1>9. AreMarginalsOf(g, list, i + 1, m)
  BY <1>2 DEF DerivedTo, AreMarginalsOf
<1>10. ASSUME NEW v, NEW b \in Values, NEW a \in [DOMAIN g -> Nat]
       PROVE  IsPassedOn(g, list, i + 1, next, m, v, b, a)
  <2>1. SUFFICES ASSUME AreMarginals(g, LeafOf(g, v, b), a)
                 PROVE  ValueIn(m, v, b) + SumFunctionOnSet(Pending(list, next, a), K) = a[list[1]]
    BY <1>1 DEF IsPassedOn
  <2>2. PICK f, new, h, leaf :
          /\ f = Pending(list, der, a) /\ new = Pending(list, next, a) /\ leaf = LeafOf(g, v, b)
          /\ h = [k \in K |-> PassedTo(g, list, n, k - 1) * a[list[k]]]
    BY Zenon
  <2>13. PICK old : old = [k \in K |-> h[k] * d]
    BY Zenon
  <2>3. \A k \in DOMAIN list : f[k] = der[k - 1] * a[list[k]] /\ f[k] \in Nat /\ a[list[k]] \in Nat
    BY <1>12, <2>2, PendingIsNat DEF AreOf
  <2>4. \A k \in DOMAIN list : new[k] = next[k - 1] * a[list[k]] /\ new[k] \in Nat
    BY <1>12, <2>2, PendingIsNat DEF AreOf
  <2>5. ASSUME NEW k \in K
        PROVE  /\ h[k] \in Nat /\ old[k] = h[k] * d /\ old[k] \in Nat /\ f[k] \in Nat
               /\ new[k] = f[k] + old[k]
    <3>1. PICK x, y, z : x = der[k - 1] /\ y = PassedTo(g, list, n, k - 1) /\ z = a[list[k]]
      BY Zenon
    <3>2. k - 1 \in DOMAIN der
      BY <1>2, <1>3, <1>4
    <3>3. x \in Nat /\ y \in Nat /\ z \in Nat
      BY <1>2, <1>4, <1>6, <2>3, <3>1, <3>2
    <3>4. y * z \in Nat /\ d * y \in Nat /\ (y * z) * d \in Nat
      BY <1>5, <3>3, Products
    <3>5. (x + d * y) * z = x * z + (y * z) * d
      <4>1. (x + d * y) * z = x * z + (d * y) * z
        BY <3>3, <3>4, Products
      <4>2. (d * y) * z = d * (y * z) /\ d * (y * z) = (y * z) * d
        BY <1>5, <3>3, <3>4, Products
      <4>3. QED
        BY <4>1, <4>2
    <3>6. h[k] = y * z /\ old[k] = h[k] * d
      BY <2>2, <2>13, <3>1, Zenon
    <3>7. f[k] = x * z /\ new[k] = (x + d * y) * z /\ f[k] \in Nat
      BY <1>2, <1>7, <2>3, <2>4, <3>1, <3>2
    <3>8. QED
      BY <3>4, <3>5, <3>6, <3>7
  <2>6. SumFunctionOnSet(h, K) = a[n]
    <3>1. ArePassedTo(g, list, K, n, a, h)
      BY <2>2 DEF ArePassedTo
    <3>2. HasChildrenIn(g, list, K, n)
      BY <1>1, <1>2, <1>3 DEF HasChildrenIn
    <3>3. AreMarginals(g, leaf, a)
      BY <2>1, <2>2
    <3>4. QED
      BY <1>3, <3>1, <3>2, <3>3, PassedOnAddsUp
  <2>7. SumFunctionOnSet(old, K) = a[n] * d
    <3>1. SumFunctionOnSet(old, K) = SumFunctionOnSet(h, K) * d
      BY <1>2, <1>5, <2>5, SumScaled
    <3>2. QED
      BY <2>6, <3>1
  <2>8. SumFunctionOnSet(new, K) = SumFunctionOnSet(f, K) + SumFunctionOnSet(old, K)
    BY <1>2, <2>5, SumOfSums
  <2>9. f[i] = a[n] * d
    <3>1. PICK y : y = a[n]
      BY Zenon
    <3>2. y \in Nat /\ d * y = y * d
      BY <1>3, <1>5, <3>1, Products
    <3>3. QED
      BY <1>1, <2>3, <3>1, <3>2
  <2>10. SumFunctionOnSet(f, K \cup {i}) = SumFunctionOnSet(f, K) + f[i]
    BY <1>2, <2>3, SumWith
  <2>11. ValueIn(m, v, b) + SumFunctionOnSet(f, K \cup {i}) = a[list[1]]
    <3>1. IsPassedOn(g, list, i, der, m, v, b, a)
      BY DEF DerivedTo
    <3>2. QED
      BY <1>2, <2>1, <2>2, <3>1 DEF IsPassedOn
  <2>12. QED
    BY <2>2, <2>7, <2>8, <2>9, <2>10, <2>11
<1>11. QED
  BY <1>9, <1>10, <1>12 DEF DerivedTo

LEMMA DerivedPastLeaf ==
  ASSUME NEW g \in Structures, NEW list, IsListOf(g, list), NEW i \in DOMAIN list,
         NEW der, NEW m, DerivedTo(g, list, i, der, m), NEW n, n = list[i], g[n].type # "decision",
         NEW u, u = g[n].variable, NEW next, DOMAIN next = DOMAIN m \cup {u},
         \A v \in DOMAIN m : v # u => next[v] = m[v],
         \A b \in Values : next[u][b] = ValueIn(m, u, b) + der[i - 1] * LeafOf(g, u, b)[n]
  PROVE  DerivedTo(g, list, i + 1, der, next)
<1>1. PICK K, d : K = PlacesFrom(list, i + 1) /\ d = der[i - 1]
  BY Zenon
<1>2. /\ IsFiniteSet(K) /\ K \subseteq DOMAIN list /\ i \notin K /\ i \in Nat \ {0}
      /\ PlacesFrom(list, i) = K \cup {i}
      /\ LeavesBefore(g, list, i + 1) = LeavesBefore(g, list, i) \cup {u}
  <2>1. /\ IsFiniteSet(PlacesFrom(list, i)) /\ IsFiniteSet(PlacesFrom(list, i + 1))
        /\ PlacesFrom(list, i) = PlacesFrom(list, i + 1) \cup {i} /\ i \notin PlacesFrom(list, i + 1)
        /\ PlacesFrom(list, i + 1) \subseteq DOMAIN list
        /\ LeavesBefore(g, list, i + 1) = LeavesBefore(g, list, i) \cup
             (IF g[list[i]].type # "decision" THEN {g[list[i]].variable} ELSE {})
    BY PlacesStep
  <2>2. i \in Nat \ {0}
    BY DEF IsListOf
  <2>3. QED
    BY <1>1, <2>1, <2>2
<1>3. Len(list) \in Nat /\ DOMAIN list = 1..Len(list) /\ n \in DOMAIN g
  BY DEF IsListOf
<1>4. /\ DOMAIN der = 0..Len(list) - 1 /\ \A j \in DOMAIN der : der[j] \in Nat
      /\ DOMAIN m = LeavesBefore(g, list, i) /\ \A v \in DOMAIN m : \A b \in Values : m[v][b] \in Nat
  BY DEF DerivedTo, AreMarginalsOf, HasNumbers
<1>10. HasNumbers(list, der)
  BY DEF DerivedTo
<1>5. d \in Nat
  BY <1>1, <1>2, <1>3, <1>4
<1>6. ASSUME NEW v, NEW b \in Values
      PROVE  /\ ValueIn(m, v, b) \in Nat /\ d * LeafOf(g, v, b)[n] \in Nat
             /\ ValueIn(next, v, b) = ValueIn(m, v, b) + d * LeafOf(g, v, b)[n]
  <2>1. PICK x : x = LeafOf(g, v, b)[n]
    BY Zenon
  <2>2. x \in Nat
    BY <1>3, <2>1, LeavesOfValue
  <2>3. ValueIn(m, v, b) \in Nat /\ d * x \in Nat
    BY <1>4, <1>5, <2>2, Products DEF ValueIn
  <2>4. CASE v = u
    BY <1>1, <2>1, <2>3, <2>4 DEF ValueIn
  <2>5. CASE v # u
    <3>1. x = 0
      BY <1>3, <2>1, <2>5 DEF LeafOf
    <3>2. d * 0 = 0
      BY <1>5, Products
    <3>3. ValueIn(next, v, b) = ValueIn(m, v, b)
      BY <2>5 DEF ValueIn
    <3>4. QED
      BY <2>1, <2>3, <3>1, <3>2, <3>3
  <2>6. QED
    BY <2>4, <2>5
<1>7. AreMarginalsOf(g, list, i + 1, next)
  <2>1. \A v \in DOMAIN next : \A b \in Values : next[v][b] \in Nat
    <3>1. ASSUME NEW v \in DOMAIN next, NEW b \in Values PROVE next[v][b] \in Nat
      <4>1. next[v][b] = ValueIn(next, v, b)
        BY DEF ValueIn
      <4>2. PICK x, y : x = ValueIn(m, v, b) /\ y = d * LeafOf(g, v, b)[n]
        BY Zenon
      <4>3. x \in Nat /\ y \in Nat /\ next[v][b] = x + y
        BY <1>6, <4>1, <4>2
      <4>4. QED
        BY <4>3
    <3>2. QED
      BY <3>1
  <2>2. QED
    BY <1>2, <1>4, <2>1 DEF AreMarginalsOf
<1>8. ASSUME NEW v, NEW b \in Values, NEW a \in [DOMAIN g -> Nat]
      PROVE  IsPassedOn(g, list, i + 1, der, next, v, b, a)
  <2>1. SUFFICES ASSUME AreMarginals(g, LeafOf(g, v, b), a)
                 PROVE  ValueIn(next, v, b) + SumFunctionOnSet(Pending(list, der, a), K) = a[list[1]]
    BY <1>1 DEF IsPassedOn
  <2>2. PICK f, x, y : f = Pending(list, der, a) /\ x = ValueIn(m, v, b) /\ y = d * LeafOf(g, v, b)[n]
    BY Zenon
  <2>3. \A k \in DOMAIN list : f[k] = der[k - 1] * a[list[k]] /\ f[k] \in Nat
    BY <1>10, <2>2, PendingIsNat DEF AreOf
  <2>4. f[i] = y
    <3>1. a[n] = LeafOf(g, v, b)[n]
      BY <1>3, <2>1 DEF AreMarginals, MarginalAt
    <3>2. QED
      BY <1>1, <2>2, <2>3, <3>1
  <2>5. SumFunctionOnSet(f, K \cup {i}) = SumFunctionOnSet(f, K) + f[i]
    BY <1>2, <2>3, SumWith
  <2>6. x + SumFunctionOnSet(f, K \cup {i}) = a[list[1]]
    <3>1. IsPassedOn(g, list, i, der, m, v, b, a)
      BY DEF DerivedTo
    <3>2. QED
      BY <1>2, <2>1, <2>2, <3>1 DEF IsPassedOn
  <2>7. SumFunctionOnSet(f, K) \in Nat
    BY <1>2, <2>3, SumIsNat
  <2>8. x \in Nat /\ y \in Nat /\ ValueIn(next, v, b) = x + y
    BY <1>6, <2>2
  <2>9. QED
    BY <2>2, <2>4, <2>5, <2>6, <2>7, <2>8
<1>9. QED
  BY <1>7, <1>8, <1>10 DEF DerivedTo

\* The numbers that GetMarginals leaves with the nodes before a place.
IsNumbered(list, word, i) == \A k \in DOMAIN list : k < i => word[list[k]] = <<k - 1>>
AnswersMarginals(g, list, m) ==
  /\ AreMarginalsOf(g, list, Len(list) + 1, m)
  /\ \A v : \A b \in Values : \A a \in [DOMAIN g -> Nat] :
       AreMarginals(g, LeafOf(g, v, b), a) => ValueIn(m, v, b) = a[list[1]]
MarginalsSoFar ==
  /\ pass \in {"none", "serialize", "number"} => marginals = <<>>
  /\ pass = "number" => IsNumbered(result, user_data, position)
  /\ pass = "down" => /\ IsNumbered(result, user_data, Len(result) + 1)
                      /\ DerivedTo(structure, result, position, derivatives, marginals)
  /\ query = "GetMarginals" /\ pass \in {"reset", "return"} => AnswersMarginals(structure, result, answer)

LEMMA ListIsList ==
  ASSUME QInv
  PROVE  IsListOf(structure, result)
<1>1. /\ Len(result) \in Nat /\ DOMAIN result = 1..Len(result) /\ IsInjective(result)
      /\ \A k \in DOMAIN result : result[k] \in Nodes
  BY ListFacts DEF QInv
<1>2. \A k, j \in DOMAIN result : result[k] = result[j] => k = j
  BY <1>1 DEF IsInjective
<1>3. QED
  BY <1>1, <1>2 DEF IsListOf, Nodes

LEMMA NumberKeepsMarginals ==
  ASSUME QInv, MarginalsSoFar, NumberNode
  PROVE  MarginalsSoFar'
<1>1. /\ UNCHANGED <<serializerVars, query, marginals>> /\ pass = "number" /\ pass' = "number"
      /\ position <= Len(result) /\ position' = position + 1
      /\ user_data' = [user_data EXCEPT ![At] = <<position - 1>>]
  BY DEF NumberNode, localVars, Place
<1>2. PICK list, p, n, word : list = result /\ p = position /\ n = At /\ word = user_data'
  BY Zenon
<1>3. /\ IsListOf(structure, list) /\ p \in DOMAIN list /\ n = list[p] /\ n \in Nodes
      /\ DOMAIN user_data = Nodes /\ result' = list /\ p \in Nat
  <2>1. position >= 1 /\ position \in Nat
    BY <1>1 DEF QInv, Control
  <2>2. position \in DOMAIN result /\ At \in Nodes
    BY <1>1, <2>1, PlaceFacts
  <2>3. DOMAIN user_data = Nodes
    BY DEF QInv, ScratchFollowsPass
  <2>4. QED
    BY <1>1, <1>2, <2>1, <2>2, <2>3, ListIsList DEF At, serializerVars
<1>4. \A m \in Nodes : word[m] = IF m = n THEN <<p - 1>> ELSE user_data[m]
  BY <1>1, <1>2, <1>3
<1>5. ASSUME NEW k \in DOMAIN list, k < p + 1 PROVE word[list[k]] = <<k - 1>>
  <2>1. list[k] \in Nodes /\ k \in Nat
    BY <1>3 DEF IsListOf, Nodes
  <2>2. CASE k = p
    BY <1>3, <1>4, <2>1, <2>2
  <2>3. CASE k # p
    <3>1. k < p
      BY <1>3, <1>5, <2>1, <2>3
    <3>2. list[k] # n
      BY <1>3, <2>3 DEF IsListOf
    <3>3. user_data[list[k]] = <<k - 1>>
      BY <1>1, <1>2, <3>1 DEF MarginalsSoFar, IsNumbered
    <3>4. QED
      BY <1>4, <2>1, <3>2, <3>3
  <2>4. QED
    BY <2>2, <2>3
<1>6. IsNumbered(result', user_data', position')
  BY <1>1, <1>2, <1>3, <1>5 DEF IsNumbered
<1>7. marginals' = <<>>
  BY <1>1 DEF MarginalsSoFar
<1>8. QED
  BY <1>1, <1>6, <1>7 DEF MarginalsSoFar

LEMMA EndNumberKeepsMarginals ==
  ASSUME QInv, HasOneRoot, MarginalsSoFar, EndNumber
  PROVE  MarginalsSoFar'
<1>1. /\ UNCHANGED <<serializerVars, marginals, user_data>> /\ pass = "number" /\ pass' = "down"
      /\ position > Len(result) /\ position' = 1
      /\ derivatives' = [i \in 0..Len(result) - 1 |-> IF i = 0 THEN 1 ELSE 0]
  BY DEF EndNumber, Enter, nodeVars
<1>2. structure' = structure /\ result' = result
  BY <1>1 DEF serializerVars
<1>3. IsListOf(structure, result) /\ 1 \in DOMAIN result
  BY <1>1, ListIsList, RootIsFirst
<1>4. DerivedTo(structure, result, 1, derivatives', <<>>)
  BY <1>1, <1>3, DerivedAtFirst
<1>5. marginals' = <<>>
  BY <1>1 DEF MarginalsSoFar
<1>6. IsNumbered(result, user_data, Len(result) + 1)
  <2>1. IsNumbered(result, user_data, position) /\ position \in Nat
    BY <1>1 DEF MarginalsSoFar, QInv, Control
  <2>2. \A k \in DOMAIN result : k < position
    BY <1>1, <1>3, <2>1 DEF IsListOf
  <2>3. QED
    BY <2>1, <2>2 DEF IsNumbered
<1>7. QED
  BY <1>1, <1>2, <1>4, <1>5, <1>6 DEF MarginalsSoFar

ArePlaced(list, c) == \A k \in DOMAIN c : \E i \in DOMAIN list : list[i] = c[k]

\* The numbers of the children tell the places to which a decision node passes on.
LEMMA PassedToPlaces ==
  ASSUME NEW g, NEW list, IsListOf(g, list), NEW word, IsNumbered(list, word, Len(list) + 1),
         NEW P, NEW S, DOMAIN P = DOMAIN S,
         ArePlaced(list, P), ArePlaced(list, S),
         NEW j \in 0..Len(list) - 1
  PROVE  {k \in DOMAIN P : j \in {word[P[k]][1], word[S[k]][1]}} =
         {k \in DOMAIN P : list[j + 1] \in {P[k], S[k]}}
<1>1. j + 1 \in DOMAIN list
  BY DEF IsListOf
<1>2. ASSUME NEW i \in DOMAIN list PROVE j = word[list[i]][1] <=> list[j + 1] = list[i]
  <2>1. i < Len(list) + 1 /\ i \in Nat
    BY <1>2 DEF IsListOf
  <2>2. word[list[i]] = <<i - 1>>
    BY <1>2, <2>1 DEF IsNumbered
  <2>3. word[list[i]][1] = i - 1
    BY <2>2
  <2>4. list[j + 1] = list[i] <=> j + 1 = i
    BY <1>1, <1>2 DEF IsListOf
  <2>5. QED
    BY <2>1, <2>3, <2>4
<1>3. ASSUME NEW k \in DOMAIN P
      PROVE  j \in {word[P[k]][1], word[S[k]][1]} <=> list[j + 1] \in {P[k], S[k]}
  <2>1. PICK i \in DOMAIN list : list[i] = P[k]
    BY <1>3 DEF ArePlaced
  <2>2. PICK m \in DOMAIN list : list[m] = S[k]
    BY <1>3 DEF ArePlaced
  <2>3. (j = word[P[k]][1] <=> list[j + 1] = P[k]) /\ (j = word[S[k]][1] <=> list[j + 1] = S[k])
    BY <1>2, <2>1, <2>2
  <2>4. QED
    BY <2>3
<1>4. QED
  BY <1>3

LEMMA DeriveKeepsMarginals ==
  ASSUME QInv, MarginalsSoFar, DeriveNode
  PROVE  MarginalsSoFar'
<1>1. /\ UNCHANGED <<serializerVars, query, user_data>> /\ pass = "down" /\ pass' = "down"
      /\ position <= Len(result) /\ position' = position + 1
  BY DEF DeriveNode, nodeVars
<1>2. PICK g, list, p, n, word, der, m, d :
        /\ g = structure /\ list = result /\ p = position /\ n = At /\ word = user_data
        /\ der = derivatives /\ m = marginals /\ d = der[p - 1]
  BY Zenon
<1>3. /\ g \in Structures /\ IsListOf(g, list) /\ p \in DOMAIN list /\ n = list[p] /\ n \in Nodes
      /\ structure' = g /\ result' = list /\ user_data' = word /\ p \in Nat
      /\ \A c \in ChildrenIn(g, n) : \E k \in PlacesFrom(list, p + 1) : list[k] = c
      /\ DOMAIN list = 1..Len(list) /\ Len(list) \in Nat /\ n \in DOMAIN g
  <2>1. position >= 1 /\ position \in Nat /\ Serialized /\ SInv
    BY <1>1 DEF QInv, Control
  <2>2. position \in DOMAIN result /\ At \in Nodes
    BY <1>1, <2>1, PlaceFacts
  <2>3. ChildrenIn(structure, At) \subseteq FromOn(position + 1)
    BY <2>1, <2>2, ChildrenAreLater DEF At
  <2>4. \A c \in FromOn(position + 1) : \E k \in PlacesFrom(result, position + 1) : result[k] = c
    BY DEF FromOn, PlacesFrom
  <2>5. structure \in Structures
    BY <2>1, ListFacts
  <2>6. QED
    BY <1>1, <1>2, <2>1, <2>2, <2>3, <2>4, <2>5, ListIsList, PlaceFacts DEF At, serializerVars, Nodes
<1>4. IsNumbered(list, word, Len(list) + 1) /\ DerivedTo(g, list, p, der, m)
  BY <1>1, <1>2 DEF MarginalsSoFar
<1>5. DerivativeOf(n) = d
  <2>1. word[n] = <<p - 1>>
    BY <1>3, <1>4 DEF IsNumbered
  <2>2. word[n][1] = p - 1
    BY <2>1
  <2>3. QED
    BY <1>2, <2>2 DEF DerivativeOf
<1>6. HasNumbers(list, der) /\ AreMarginalsOf(g, list, p, m)
  BY <1>4 DEF DerivedTo
<1>7. CASE g[n].type = "decision"
  <2>1. derivatives' = [i \in DOMAIN derivatives |-> Added(n, i)] /\ marginals' = m
    BY <1>2, <1>7 DEF DeriveNode, TypeOf
  <2>2. ASSUME NEW j \in DOMAIN der PROVE Added(n, j) = der[j] + d * PassedTo(g, list, n, j)
    <3>1. j \in 0..Len(list) - 1
      BY <1>6, <2>2 DEF HasNumbers
    <3>2. PICK P, S : P = g[n].primes /\ S = g[n].subs
      BY Zenon
    <3>3. /\ DOMAIN P = DOMAIN S
          /\ \A k \in DOMAIN P : {P[k], S[k]} \subseteq ChildrenIn(g, n)
      <4>1. \A k \in Elements(n) : {Primes(n)[k], Subs(n)[k]} \subseteq ChildrenIn(structure, n)
        BY <1>2, <1>3, NodeFacts
      <4>2. g[n] \in PsddNode /\ Len(g[n].primes) = Len(g[n].subs)
        BY <1>3, PsddGraphAssumption DEF IsConformed, Nodes
      <4>3. g[n].primes \in Seq(Nat) /\ g[n].subs \in Seq(Nat)
        BY <4>2 DEF PsddNode
      <4>4. QED
        BY <1>2, <3>2, <4>1, <4>2, <4>3 DEF Elements, Primes, Subs
    <3>4. \A c \in ChildrenIn(g, n) : \E i \in DOMAIN list : list[i] = c
      BY <1>3 DEF PlacesFrom
    <3>5. \A k \in DOMAIN P : (\E i \in DOMAIN list : list[i] = P[k]) /\ (\E i \in DOMAIN list : list[i] = S[k])
      BY <3>3, <3>4
    <3>6. {k \in DOMAIN P : j \in {word[P[k]][1], word[S[k]][1]}} = {k \in DOMAIN P : list[j + 1] \in {P[k], S[k]}}
      <4>1. IsListOf(g, list) /\ IsNumbered(list, word, Len(list) + 1) /\ DOMAIN P = DOMAIN S
        BY <1>3, <1>4, <3>3
      <4>2. ArePlaced(list, P) /\ ArePlaced(list, S)
        BY <3>3, <3>5 DEF ArePlaced
      <4>3. QED
        BY ONLY <3>1, <4>1, <4>2, PassedToPlaces
    <3>7. PassedOn(n, j) = d * SumFunctionOnSet(g[n].parameters, {k \in DOMAIN P : j \in {word[P[k]][1], word[S[k]][1]}})
      BY <1>2, <1>5, <3>2, Zenon DEF PassedOn, Elements, Primes, Subs, Parameters
    <3>8. PassedOn(n, j) = d * PassedTo(g, list, n, j)
      BY <3>2, <3>6, <3>7, Zenon DEF PassedTo
    <3>9. QED
      BY <1>2, <3>8, Zenon DEF Added
  <2>3. PICK next : next = [j \in DOMAIN der |-> der[j] + der[p - 1] * PassedTo(g, list, n, j)]
    BY Zenon
  <2>4. derivatives' = next
    BY <1>2, <2>1, <2>2, <2>3, Zenon
  <2>5. DerivedTo(g, list, p + 1, next, m)
    BY <1>3, <1>4, <1>7, <2>3, DerivedPastDecision
  <2>6. QED
    BY <1>1, <1>2, <1>3, <1>4, <2>1, <2>4, <2>5 DEF MarginalsSoFar
<1>8. CASE g[n].type # "decision"
  <2>1. PICK u : u = g[n].variable
    BY Zenon
  <2>2. PICK next : next = marginals'
    BY Zenon
  <2>3. /\ derivatives' = der
        /\ next = [v \in DOMAIN m \cup {u} |->
                     IF v = u THEN [b \in {"false", "true"} |-> MarginalOf(v)[b] + Increase(n)[b]] ELSE m[v]]
    BY <1>2, <1>8, <2>1, <2>2, Zenon DEF DeriveNode, TypeOf, Variable
  <2>4. DOMAIN next = DOMAIN m \cup {u} /\ \A v \in DOMAIN m : v # u => next[v] = m[v]
    BY <2>3
  <2>5. ASSUME NEW b \in Values PROVE next[u][b] = ValueIn(m, u, b) + d * LeafOf(g, u, b)[n]
    <3>1. next[u][b] = MarginalOf(u)[b] + Increase(n)[b]
      BY <2>3, <2>5 DEF Values
    <3>2. MarginalOf(u)[b] = ValueIn(m, u, b)
      <4>1. [false |-> 0, true |-> 0][b] = 0
        BY <2>5 DEF Values
      <4>2. QED
        BY <1>2, <4>1 DEF MarginalOf, ValueIn
    <3>3. Increase(n)[b] = d * LeafOf(g, u, b)[n]
      <4>1. LeafOf(g, u, b)[n] = IF b = "true" THEN TrueOf(g)[n] ELSE FalseOf(g)[n]
        BY <1>3, <2>1 DEF LeafOf
      <4>2. g[n].type \in {"literal", "top"}
        BY <1>3, <1>8, GraphFacts
      <4>3. CASE g[n].type = "literal"
        <5>1. Increase(n) = [false |-> IF g[n].sign THEN 0 ELSE d * One, true |-> IF g[n].sign THEN d * One ELSE 0]
          BY <1>2, <1>5, <4>3, Zenon DEF Increase, TypeOf
        <5>2. TrueOf(g)[n] = (IF g[n].sign THEN One ELSE 0) /\ FalseOf(g)[n] = (IF g[n].sign THEN 0 ELSE One)
          BY <1>3, <4>3 DEF TrueOf, FalseOf
        <5>3. d * 0 = 0
          <6>1. p - 1 \in DOMAIN der
            BY <1>3, <1>6 DEF HasNumbers
          <6>2. d \in Nat
            BY <1>2, <1>6, <6>1 DEF HasNumbers
          <6>3. QED
            BY <6>2
        <5>4. g[n].sign \in BOOLEAN
          BY <1>3, GraphFacts
        <5>5. Increase(n)["true"] = (IF g[n].sign THEN d * One ELSE 0) /\ Increase(n)["false"] = (IF g[n].sign THEN 0 ELSE d * One)
          BY <5>1
        <5>6. CASE b = "true"
          BY <4>1, <5>2, <5>3, <5>5, <5>6
        <5>7. CASE b = "false"
          BY <4>1, <5>2, <5>3, <5>5, <5>7
        <5>8. QED
          BY <2>5, <5>6, <5>7 DEF Values
      <4>4. CASE g[n].type = "top"
        <5>1. Increase(n) = [false |-> d * g[n].parameters[2], true |-> d * g[n].parameters[1]]
          BY <1>2, <1>5, <4>4 DEF Increase, TypeOf, TrueParameter, FalseParameter, Parameters
        <5>2. TrueOf(g)[n] = g[n].parameters[1] /\ FalseOf(g)[n] = g[n].parameters[2]
          BY <1>3, <4>4 DEF TrueOf, FalseOf
        <5>3. CASE b = "true"
          BY <4>1, <5>1, <5>2, <5>3
        <5>4. CASE b = "false"
          BY <4>1, <5>1, <5>2, <5>4
        <5>5. QED
          BY <2>5, <5>3, <5>4 DEF Values
      <4>5. QED
        BY <4>2, <4>3, <4>4
    <3>4. QED
      BY <3>1, <3>2, <3>3
  <2>6. \A b \in Values : next[u][b] = ValueIn(m, u, b) + der[p - 1] * LeafOf(g, u, b)[n]
    BY <1>2, <2>5
  <2>7. DerivedTo(g, list, p + 1, der, next)
    <3>1. /\ g \in Structures /\ IsListOf(g, list) /\ p \in DOMAIN list /\ DerivedTo(g, list, p, der, m)
          /\ n = list[p] /\ g[n].type # "decision" /\ u = g[n].variable
      BY <1>3, <1>4, <1>8, <2>1
    <3>2. QED
      BY ONLY <2>4, <2>6, <3>1, DerivedPastLeaf
  <2>8. QED
    BY <1>1, <1>2, <1>3, <1>4, <2>2, <2>3, <2>7 DEF MarginalsSoFar
<1>9. QED
  BY <1>7, <1>8

LEMMA EndDownKeepsMarginals ==
  ASSUME QInv, MarginalsSoFar, EndDown
  PROVE  MarginalsSoFar'
<1>1. /\ UNCHANGED serializerVars /\ pass = "down" /\ pass' = "reset" /\ answer' = marginals
      /\ position > Len(result)
  BY DEF EndDown, Enter
<1>2. structure' = structure /\ result' = result
  BY <1>1 DEF serializerVars
<1>3. position = Len(result) + 1
  BY <1>1, PlaceFacts DEF QInv, Control
<1>4. IsListOf(structure, result) /\ DerivedTo(structure, result, Len(result) + 1, derivatives, marginals)
  BY <1>1, <1>3, ListIsList DEF MarginalsSoFar
<1>5. AnswersMarginals(structure, result, marginals)
  BY <1>4, DerivedAtLast DEF AnswersMarginals
<1>6. QED
  BY <1>1, <1>2, <1>5 DEF MarginalsSoFar

LEMMA OthersKeepMarginals ==
  ASSUME QInv, MarginalsSoFar,
         \/ Begin \/ Serialize \/ EndSerialize
         \/ ActivateNode \/ EvaluateNode \/ CountNode \/ MaximizeNode \/ WriteLine
         \/ EndUp \/ Extract \/ EndExtract
         \/ ResetNode \/ EndReset \/ Return \/ UNCHANGED vars
  PROVE  MarginalsSoFar'
<1>1. CASE Begin \/ Serialize
  <2>1. marginals' = marginals /\ pass' = "serialize" /\ pass \in {"none", "serialize"}
    BY <1>1 DEF Begin, Serialize, Enter, localVars, QInv, Control
  <2>2. QED
    BY <2>1 DEF MarginalsSoFar
<1>2. CASE EndSerialize
  <2>1. /\ UNCHANGED serializerVars /\ pass = "serialize" /\ marginals' = marginals
        /\ pass' = "up" \/ (pass' = "number" /\ position' = 1)
    BY <1>2 DEF EndSerialize, Enter, localVars
  <2>2. marginals' = <<>> /\ result' = result /\ DOMAIN result = 1..Len(result) /\ Len(result) \in Nat
    BY <2>1, PlaceFacts DEF MarginalsSoFar, serializerVars
  <2>3. position' = 1 => IsNumbered(result', user_data', position')
    BY <2>2 DEF IsNumbered
  <2>4. QED
    BY <2>1, <2>2, <2>3 DEF MarginalsSoFar
<1>3. CASE ActivateNode \/ EvaluateNode \/ CountNode \/ MaximizeNode \/ WriteLine
  <2>1. pass' = "up"
    BY <1>3 DEF ActivateNode, EvaluateNode, CountNode, MaximizeNode, WriteLine, Up
  <2>2. QED
    BY <2>1 DEF MarginalsSoFar
<1>4. CASE EndUp \/ Extract \/ EndExtract
  <2>1. query' = query /\ pass \in {"up", "extract"}
    BY <1>4 DEF EndUp, Extract, EndExtract
  <2>2. query' # "GetMarginals"
    BY <2>1 DEF QInv, Control
  <2>3. pass' \in {"extract", "reset", "return"}
    <3>1. query \in Queries /\ query # "GetMarginals"
      BY <2>1, <2>2 DEF QInv, Control
    <3>2. QED
      BY <1>4, <3>1 DEF EndUp, Extract, EndExtract, Enter, Queries
  <2>4. QED
    BY <2>2, <2>3 DEF MarginalsSoFar
<1>5. CASE ResetNode \/ EndReset
  <2>1. /\ UNCHANGED <<serializerVars, query, answer>>
        /\ pass = "reset" /\ pass' \in {"reset", "return"}
    BY <1>5 DEF ResetNode, EndReset, Enter, localVars
  <2>2. structure' = structure /\ result' = result
    BY <2>1 DEF serializerVars
  <2>3. QED
    BY <2>1, <2>2 DEF MarginalsSoFar
<1>6. CASE Return
  <2>1. marginals' = <<>> /\ pass' = "none"
    BY <1>6 DEF Return, Enter
  <2>2. QED
    BY <2>1 DEF MarginalsSoFar
<1>7. CASE UNCHANGED vars
  <2>1. UNCHANGED <<structure, result, query, answer, marginals, derivatives, pass, position, user_data>>
    BY <1>7 DEF vars, nodeVars, localVars, serializerVars
  <2>2. QED
    BY <2>1 DEF MarginalsSoFar
<1>8. QED
  BY <1>1, <1>2, <1>3, <1>4, <1>5, <1>6, <1>7

\* The sums that GetMarginals returns are those over the paths from the root.
THEOREM MarginalsInvariant == Spec => [](QInv /\ HasOneRoot /\ MarginalsSoFar)
<1>1. QueriesInit => HasOneRoot /\ MarginalsSoFar
  BY DEF QueriesInit, HasOneRoot, MarginalsSoFar
<1>2. QInv /\ HasOneRoot /\ MarginalsSoFar /\ [Next]_vars => HasOneRoot' /\ MarginalsSoFar'
  BY NumberKeepsMarginals, EndNumberKeepsMarginals, DeriveKeepsMarginals, EndDownKeepsMarginals,
     OthersKeepMarginals, OneRootIsKept DEF Next, Work
<1>3. QED
  BY <1>1, <1>2, QueriesInvariant, PTL DEF Spec

\* The leaves of the list are about the variables below the root.
LEMMA LeavesAreInScope ==
  ASSUME QInv, HasOneRoot, pass = "return"
  PROVE  LeavesBefore(structure, result, Len(result) + 1) = Scope
<1>1. SInv /\ Serialized /\ query # "none" /\ roots \in Seq(Nat)
  BY DEF QInv, Control, SInv, RootsAreGiven
<1>2. roots = <<Root>>
  <2>1. Len(roots) = 1
    BY <1>1 DEF HasOneRoot
  <2>2. QED
    BY <1>1, <2>1 DEF Root
<1>3. Range(result) = Below(structure, <<Root>>)
  <2>1. Range(result) = Below(structure, roots)
    BY <1>1, SInvImpliesEachNodeOnce DEF EachNodeOnce
  <2>2. QED
    BY <1>2, <2>1, Zenon
<1>4. DOMAIN result = 1..Len(result) /\ Len(result) \in Nat
  BY <1>1, ListFacts
<1>5. \A k \in DOMAIN result : k < Len(result) + 1
  BY <1>4
<1>6. LeavesBefore(structure, result, Len(result) + 1) =
        {structure[m].variable : m \in {k \in Range(result) : structure[k].type # "decision"}}
  BY <1>5 DEF LeavesBefore, Range
<1>7. QED
  BY <1>3, <1>6, Zenon DEF Scope, VariablesUnder

\* The two marginals of every variable below the root are to each other as the probabilities of the
\* instantiations with that value, and not both 0, for any PSDDs and any sequence of calls.
THEOREM MarginalsRight == Spec => []MarginalsAreRight
<1>1. ASSUME QInv, HasOneRoot, MarginalsSoFar PROVE MarginalsAreRight
  <2>1. SUFFICES ASSUME pass = "return", query = "GetMarginals"
                 PROVE  /\ DOMAIN answer = Scope
                        /\ \A v \in Scope :
                             answer[v].true * TotalWeight({x \in Instantiations : v \notin x}) =
                             answer[v].false * TotalWeight({x \in Instantiations : v \in x})
                        /\ \A v \in Scope : answer[v].true + answer[v].false > 0
    BY DEF MarginalsAreRight
  <2>2. PICK g, list, n, m : g = structure /\ list = result /\ n = Root /\ m = answer
    BY Zenon
  <2>3. /\ g \in Structures /\ n \in Nodes /\ n \in DOMAIN g /\ list[1] = n /\ 1 \in DOMAIN list
        /\ Scope = VariablesUnder(g, n)
    BY <1>1, <2>1, <2>2, RootIsListed, RootIsFirst DEF Nodes, Scope
  <2>4. AnswersMarginals(g, list, m)
    BY <1>1, <2>1, <2>2 DEF MarginalsSoFar
  <2>5. DOMAIN m = Scope
    <3>1. DOMAIN m = LeavesBefore(g, list, Len(list) + 1)
      BY <2>4 DEF AnswersMarginals, AreMarginalsOf
    <3>2. QED
      BY <1>1, <2>1, <2>2, <3>1, LeavesAreInScope
  <2>6. ASSUME NEW v \in Scope
        PROVE  /\ m[v].true * TotalWeight({x \in Instantiations : v \notin x}) =
                  m[v].false * TotalWeight({x \in Instantiations : v \in x})
               /\ m[v].true + m[v].false > 0
    <3>1. \A b \in Values : \A k \in DOMAIN g : LeafOf(g, v, b)[k] \in Nat
      BY <2>3, LeavesOfValue
    <3>2. PICK a \in [DOMAIN g -> Nat] : AreMarginals(g, LeafOf(g, v, "true"), a)
      BY <2>3, <3>1, MarginalsExist DEF Values
    <3>3. PICK b \in [DOMAIN g -> Nat] : AreMarginals(g, LeafOf(g, v, "false"), b)
      BY <2>3, <3>1, MarginalsExist DEF Values
    <3>4. ValueIn(m, v, "true") = a[n] /\ ValueIn(m, v, "false") = b[n]
      BY <2>3, <2>4, <3>2, <3>3 DEF AnswersMarginals, Values
    <3>5. m[v]["true"] = a[n] /\ m[v]["false"] = b[n]
      BY <2>5, <2>6, <3>4 DEF ValueIn
    <3>6. /\ a[n] * Probabilities(g, Observed(v, "false"))[n] =
             b[n] * Probabilities(g, Observed(v, "true"))[n]
          /\ a[n] + b[n] > 0
      BY <2>3, <2>6, <3>2, <3>3, MarginalsAreFractions
    <3>7. Probabilities(g, Observed(v, "true"))[n] = TotalWeight({x \in Instantiations : v \in x})
      <4>1. AgreeingOn(Scope, Observed(v, "true")) = {x \in Instantiations : v \in x}
        BY <2>6 DEF AgreeingOn, Observed, Instantiations
      <4>2. Probabilities(g, Observed(v, "true"))[n] = TotalWeight(AgreeingOn(Scope, Observed(v, "true")))
        BY <2>2, <2>3, ProbabilityIsTotal
      <4>3. QED
        BY <4>1, <4>2
    <3>8. Probabilities(g, Observed(v, "false"))[n] = TotalWeight({x \in Instantiations : v \notin x})
      <4>1. AgreeingOn(Scope, Observed(v, "false")) = {x \in Instantiations : v \notin x}
        BY <2>6 DEF AgreeingOn, Observed, Instantiations
      <4>2. Probabilities(g, Observed(v, "false"))[n] = TotalWeight(AgreeingOn(Scope, Observed(v, "false")))
        BY <2>2, <2>3, ProbabilityIsTotal
      <4>3. QED
        BY <4>1, <4>2
    <3>9. QED
      BY <3>5, <3>6, <3>7, <3>8
  <2>7. QED
    BY <2>2, <2>5, <2>6
<1>2. QED
  BY <1>1, MarginalsInvariant, PTL

=============================================================================
