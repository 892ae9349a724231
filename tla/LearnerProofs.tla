---------------------------- MODULE LearnerProofs ----------------------------
(***************************************************************************)
(* What learning and sampling keep, for any nodes, roots and data: that    *)
(* every pass finds what it reads, that a call leaves the nodes as it      *)
(* found them, and that it returns what it should.  The argument is where  *)
(* a pass is in the list: of the nodes from some place on (FromOn) the     *)
(* vectors or the scratch words are set, and what they are set to is what  *)
(* the meaning of the nodes says; children come after their parents.       *)
(***************************************************************************)
EXTENDS Learner, SerializerProofs, FiniteSetTheorems

Control ==
  /\ pass \in {"serialize", "values", "contexts", "parameters", "reset", "return"}
  /\ position \in Nat /\ position <= Len(result) + 1
  /\ pass \in {"values", "parameters"} => position <= Len(result)
  /\ pass \in {"contexts", "reset"} => position >= 1
  /\ pass \in {"values", "contexts"} => call = "learn"
  /\ call = "none" <=> pass = "return"
  /\ pass = "return" => roots = <<>> /\ Start
  /\ pass # "serialize" => Serialized

VectorsFollowPass ==
  /\ pass = "values" => filled = FromOn(position + 1)
  /\ pass = "contexts" => filled = FromOn(position)
  /\ pass \notin {"values", "contexts"} => filled = {}

ScratchFollowsPass ==
  /\ DOMAIN user_data = Nodes
  /\ pass = "parameters" => \A n \in Nodes : user_data[n] # Null <=> n \in FromOn(position + 1)
  /\ pass = "reset" => \A n \in Nodes : user_data[n] # Null <=> n \in FromOn(position)
  /\ pass \notin {"parameters", "reset"} => \A n \in Nodes : user_data[n] = Null

CountsFollowPass ==
  /\ DOMAIN data_counts = Nodes
  /\ \A n \in Nodes : data_counts[n] # NoCounts(structure, n) =>
       /\ call = "learn" /\ pass \in {"contexts", "parameters", "reset"}
       /\ n \in Range(result)
       /\ pass = "reset" => n \in FromOn(position)

LInv == SInv /\ Control /\ VectorsFollowPass /\ ScratchFollowsPass /\ CountsFollowPass

-----------------------------------------------------------------------------
LEMMA LInvImpliesReady ==
  ASSUME LInv
  PROVE  OperandsAreReady
<1>1. /\ SInv /\ Control /\ VectorsFollowPass /\ ScratchFollowsPass
      /\ Len(result) \in Nat /\ DOMAIN result = 1..Len(result) /\ position \in Nat
  BY ListFacts DEF LInv, Control
<1>2. ASSUME pass = "values", position > 0
      PROVE  ChildrenIn(structure, At) \subseteq filled
  <2>1. position \in DOMAIN result /\ Serialized
    BY <1>1, <1>2 DEF Control
  <2>2. QED
    BY <1>1, <1>2, <2>1, ChildrenAreLater DEF At, VectorsFollowPass
<1>3. ASSUME pass = "contexts", position <= Len(result)
      PROVE  ChildrenIn(structure, At) \cup {At} \subseteq filled
  <2>1. position \in DOMAIN result /\ Serialized
    BY <1>1, <1>3 DEF Control
  <2>2. QED
    BY <1>1, <1>3, <2>1, ChildrenAreLater, FromOnStep DEF At, VectorsFollowPass
<1>4. ASSUME pass = "parameters", position > 0
      PROVE  \A c \in ChildrenIn(structure, At) : user_data[c] # Null
  <2>1. position \in DOMAIN result /\ Serialized
    BY <1>1, <1>4 DEF Control
  <2>2. QED
    BY <1>1, <1>4, <2>1, ChildrenAreLater DEF At, ScratchFollowsPass
<1>5. QED
  BY <1>2, <1>3, <1>4 DEF OperandsAreReady

LEMMA LInvImpliesClean ==
  ASSUME LInv
  PROVE  ScratchIsClean
BY DEF LInv, ScratchIsClean, Control, VectorsFollowPass, ScratchFollowsPass, CountsFollowPass, Nodes

-----------------------------------------------------------------------------
\* The list stays: what of the invariant is about it alone.
LEMMA ListStays ==
  ASSUME LInv, UNCHANGED serializerVars
  PROVE  /\ SInv' /\ result' = result /\ Nodes' = Nodes /\ structure' = structure
         /\ \A i : FromOn(i)' = FromOn(i)
         /\ Serialized' <=> Serialized
         /\ \A n : NoCounts(structure', n) = NoCounts(structure, n)
<1>1. SInv'
  BY IdleKeepsSInv DEF LInv
<1>2. QED
  BY <1>1 DEF serializerVars, Nodes, FromOn, Serialized, RootsTaken

LEMMA BeginCallKeepsLInv ==
  ASSUME LInv, BeginCall
  PROVE  LInv'
<1>1. /\ call = "none" /\ pass = "return" /\ roots = <<>> /\ Start /\ structure \in Structures
      /\ SInv /\ filled = {}
      /\ DOMAIN user_data = Nodes /\ DOMAIN data_counts = Nodes
      /\ \A n \in Nodes : user_data[n] = Null /\ data_counts[n] = NoCounts(structure, n)
  BY DEF LInv, BeginCall, Control, SInv, ListIsTyped, VectorsFollowPass, ScratchFollowsPass, CountsFollowPass
<1>2. /\ roots' \in RootLists /\ AreRoots(structure, roots') /\ structure' = structure
      /\ UNCHANGED <<next_root, result, node_explored, explore_index, edge>>
      /\ call' \in {"learn", "sample"} /\ pass' = "serialize" /\ position' = 0
      /\ UNCHANGED <<filled, data_counts, user_data>>
  BY DEF BeginCall, Enter
<1>3. Start' /\ RootsAreGiven' /\ structure' \in Structures
  BY <1>1, <1>2, PsddGraphAssumption DEF Start, RootsAreGiven
<1>4. SInv'
  BY <1>3, RestartKeepsSInv
<1>5. Control'
  <2>1. Len(result') = 0
    BY <1>3 DEF Start
  <2>2. QED
    BY <1>2, <2>1 DEF Control
<1>6. VectorsFollowPass' /\ ScratchFollowsPass' /\ CountsFollowPass'
  BY <1>1, <1>2 DEF VectorsFollowPass, ScratchFollowsPass, CountsFollowPass, Nodes
<1>7. QED
  BY <1>4, <1>5, <1>6 DEF LInv

LEMMA SerializeKeepsLInv ==
  ASSUME LInv, Serialize
  PROVE  LInv'
<1>1. /\ pass = "serialize" /\ SerializerNext /\ UNCHANGED passVars /\ SInv
      /\ position \in Nat /\ position <= Len(result) + 1 /\ call # "none"
  BY DEF LInv, Serialize, Control
<1>2. SInv'
  BY <1>1, SerializerKeepsSInv
<1>3. /\ structure' = structure
      /\ pass' = pass /\ call' = call /\ position' = position /\ filled' = filled
      /\ user_data' = user_data /\ data_counts' = data_counts
  BY <1>1 DEF SerializerNext, PushRoot, PushChild, NextNode, passVars
<1>4. Len(result') >= Len(result) /\ Len(result') \in Nat /\ Len(result) \in Nat
  BY <1>1, ListGrows
<1>5. Control'
  BY <1>1, <1>3, <1>4 DEF Control
<1>6. VectorsFollowPass' /\ ScratchFollowsPass' /\ CountsFollowPass'
  BY <1>1, <1>3 DEF LInv, VectorsFollowPass, ScratchFollowsPass, CountsFollowPass, Nodes
<1>7. QED
  BY <1>2, <1>5, <1>6 DEF LInv

LEMMA EndSerializeKeepsLInv ==
  ASSUME LInv, EndSerialize
  PROVE  LInv'
<1>1. /\ UNCHANGED serializerVars /\ pass = "serialize" /\ Serialized
      /\ pass' \in {"values", "parameters"} /\ position' = Len(result)
      /\ pass' = "values" => call = "learn"
      /\ UNCHANGED <<call, filled, user_data, data_counts>>
  BY DEF EndSerialize, Enter
<1>2. /\ SInv' /\ result' = result /\ Nodes' = Nodes /\ structure' = structure
      /\ \A i : FromOn(i)' = FromOn(i)
      /\ Serialized' /\ \A n : NoCounts(structure', n) = NoCounts(structure, n)
  BY <1>1, ListStays
<1>3. Len(result) \in Nat /\ FromOn(Len(result) + 1) = {}
  BY ListFacts, FromOnEnds DEF LInv
<1>4. Control'
  BY <1>1, <1>2, <1>3 DEF LInv, Control
<1>5. FromOn(position + 1)' = {}
  BY <1>1, <1>2, <1>3 DEF FromOn
<1>6. VectorsFollowPass' /\ ScratchFollowsPass' /\ CountsFollowPass'
  BY <1>1, <1>2, <1>5 DEF LInv, VectorsFollowPass, ScratchFollowsPass, CountsFollowPass
<1>7. QED
  BY <1>2, <1>4, <1>6 DEF LInv

LEMMA ComputeValueKeepsLInv ==
  ASSUME LInv, ComputeValue
  PROVE  LInv'
<1>1. /\ UNCHANGED serializerVars /\ pass = "values" /\ position > 0 /\ position' = position - 1
      /\ filled' = filled \cup {At} /\ UNCHANGED <<call, pass, user_data, data_counts>>
  BY DEF ComputeValue
<1>2. /\ SInv' /\ result' = result /\ Nodes' = Nodes /\ structure' = structure
      /\ \A i : FromOn(i)' = FromOn(i)
      /\ Serialized' <=> Serialized
      /\ \A n : NoCounts(structure', n) = NoCounts(structure, n)
  BY <1>1, ListStays
<1>3. position \in Nat /\ Len(result) \in Nat /\ position \in DOMAIN result
  BY <1>1, ListFacts DEF LInv, Control
<1>4. Control'
  BY <1>1, <1>2, <1>3 DEF LInv, Control
<1>5. FromOn(position + 1)' = FromOn(position)
  <2>1. position' + 1 = position
    BY <1>1, <1>3
  <2>2. QED
    BY <1>2, <2>1 DEF FromOn
<1>6. VectorsFollowPass'
  BY <1>1, <1>3, <1>5, FromOnStep DEF LInv, VectorsFollowPass, At
<1>7. ScratchFollowsPass' /\ CountsFollowPass'
  BY <1>1, <1>2 DEF LInv, ScratchFollowsPass, CountsFollowPass
<1>8. QED
  BY <1>2, <1>4, <1>6, <1>7 DEF LInv

LEMMA EndValuesKeepsLInv ==
  ASSUME LInv, EndValues
  PROVE  LInv'
<1>1. /\ UNCHANGED serializerVars /\ pass = "values" /\ position = 0 /\ position' = 1
      /\ pass' = "contexts" /\ UNCHANGED <<call, filled, user_data, data_counts>>
  BY DEF EndValues, Enter
<1>2. /\ SInv' /\ result' = result /\ Nodes' = Nodes /\ structure' = structure
      /\ \A i : FromOn(i)' = FromOn(i)
      /\ Serialized' <=> Serialized
      /\ \A n : NoCounts(structure', n) = NoCounts(structure, n)
  BY <1>1, ListStays
<1>3. Len(result) \in Nat
  BY ListFacts DEF LInv
<1>4. Control'
  BY <1>1, <1>2, <1>3 DEF LInv, Control
<1>5. FromOn(position)' = FromOn(position + 1)
  BY <1>1, <1>2 DEF FromOn
<1>6. VectorsFollowPass' /\ ScratchFollowsPass' /\ CountsFollowPass'
  BY <1>1, <1>2, <1>5 DEF LInv, VectorsFollowPass, ScratchFollowsPass, CountsFollowPass
<1>7. QED
  BY <1>2, <1>4, <1>6 DEF LInv

LEMMA ComputeContextKeepsLInv ==
  ASSUME LInv, ComputeContext
  PROVE  LInv'
<1>1. /\ UNCHANGED serializerVars /\ pass = "contexts" /\ position <= Len(result)
      /\ position' = position + 1 /\ filled' = filled \ {At}
      /\ UNCHANGED <<call, pass, user_data>>
      /\ DOMAIN data_counts' = DOMAIN data_counts
      /\ \A n \in DOMAIN data_counts : n # At => data_counts'[n] = data_counts[n]
  BY DEF ComputeContext, Cleared
<1>2. /\ SInv' /\ result' = result /\ Nodes' = Nodes /\ structure' = structure
      /\ \A i : FromOn(i)' = FromOn(i)
      /\ Serialized' <=> Serialized
      /\ \A n : NoCounts(structure', n) = NoCounts(structure, n)
  BY <1>1, ListStays
<1>3. position \in Nat /\ Len(result) \in Nat /\ position \in DOMAIN result
  BY <1>1, ListFacts DEF LInv, Control
<1>4. Control'
  BY <1>1, <1>2, <1>3 DEF LInv, Control
<1>5. FromOn(position)' = FromOn(position + 1)
  BY <1>1, <1>2 DEF FromOn
<1>6. VectorsFollowPass'
  BY <1>1, <1>3, <1>5, FromOnStep DEF LInv, VectorsFollowPass, At
<1>7. ScratchFollowsPass'
  BY <1>1, <1>2 DEF LInv, ScratchFollowsPass
<1>8. CountsFollowPass'
  <2>1. call = "learn"
    BY <1>1 DEF LInv, Control
  <2>2. At \in Range(result)
    BY <1>3 DEF At, Range
  <2>3. QED
    BY <1>1, <1>2, <2>1, <2>2 DEF LInv, CountsFollowPass
<1>9. QED
  BY <1>2, <1>4, <1>6, <1>7, <1>8 DEF LInv

LEMMA EndContextsKeepsLInv ==
  ASSUME LInv, EndContexts
  PROVE  LInv'
<1>1. /\ UNCHANGED serializerVars /\ pass = "contexts" /\ position > Len(result)
      /\ position' = Len(result) /\ pass' = "parameters"
      /\ UNCHANGED <<call, filled, user_data, data_counts>>
  BY DEF EndContexts, Enter
<1>2. /\ SInv' /\ result' = result /\ Nodes' = Nodes /\ structure' = structure
      /\ \A i : FromOn(i)' = FromOn(i)
      /\ Serialized' <=> Serialized
      /\ \A n : NoCounts(structure', n) = NoCounts(structure, n)
  BY <1>1, ListStays
<1>3. /\ Len(result) \in Nat /\ position \in Nat
      /\ FromOn(Len(result) + 1) = {} /\ FromOn(position) = {}
  BY <1>1, ListFacts, FromOnEnds DEF LInv, Control
<1>4. Control'
  BY <1>1, <1>2, <1>3 DEF LInv, Control
<1>5. FromOn(position + 1)' = {}
  BY <1>1, <1>2, <1>3 DEF FromOn
<1>6. VectorsFollowPass' /\ ScratchFollowsPass' /\ CountsFollowPass'
  BY <1>1, <1>2, <1>3, <1>5 DEF LInv, VectorsFollowPass, ScratchFollowsPass, CountsFollowPass
<1>7. QED
  BY <1>2, <1>4, <1>6 DEF LInv

\* A new node is one.
LEMMA NewNodeIsNode ==
  ASSUME LInv, NEW n \in Nodes
  PROVE  NewNode(n) # Null
<1>1. TypeOf(n) \in {"literal", "top", "decision"}
  BY ListFacts, PsddGraphAssumption DEF LInv, TypeOf, IsConformed, PsddNode, Nodes
<1>2. NewNode(n).type = TypeOf(n)
  BY <1>1 DEF NewNode
<1>3. QED
  BY <1>1, <1>2 DEF Null

LEMMA MakeNodeKeepsLInv ==
  ASSUME LInv, MakeNode
  PROVE  LInv'
<1>1. /\ UNCHANGED serializerVars /\ pass = "parameters" /\ position > 0 /\ position' = position - 1
      /\ user_data' = [user_data EXCEPT ![At] = NewNode(At)]
      /\ UNCHANGED <<call, pass, filled, data_counts>>
  BY DEF MakeNode
<1>2. /\ SInv' /\ result' = result /\ Nodes' = Nodes /\ structure' = structure
      /\ \A i : FromOn(i)' = FromOn(i)
      /\ Serialized' <=> Serialized
      /\ \A n : NoCounts(structure', n) = NoCounts(structure, n)
  BY <1>1, ListStays
<1>3. position \in Nat /\ Len(result) \in Nat /\ position \in DOMAIN result /\ At \in Nodes
  BY <1>1, ListFacts DEF LInv, Control, At
<1>4. Control'
  BY <1>1, <1>2, <1>3 DEF LInv, Control
<1>5. FromOn(position + 1)' = FromOn(position)
  <2>1. position' + 1 = position
    BY <1>1, <1>3
  <2>2. QED
    BY <1>2, <2>1 DEF FromOn
<1>6. VectorsFollowPass' /\ CountsFollowPass'
  BY <1>1, <1>2 DEF LInv, VectorsFollowPass, CountsFollowPass
<1>7. ScratchFollowsPass'
  <2>1. /\ DOMAIN user_data = Nodes
        /\ \A n \in Nodes : user_data[n] # Null <=> n \in FromOn(position + 1)
    BY <1>1 DEF LInv, ScratchFollowsPass
  <2>2. FromOn(position) = FromOn(position + 1) \cup {At}
    BY <1>3, FromOnStep DEF LInv, At
  <2>3. NewNode(At) # Null
    BY <1>3, NewNodeIsNode
  <2>4. /\ DOMAIN user_data' = Nodes
        /\ \A n \in Nodes : user_data'[n] = IF n = At THEN NewNode(At) ELSE user_data[n]
    BY <1>1, <2>1
  <2>5. \A n \in Nodes : user_data'[n] # Null <=> n \in FromOn(position)
    BY <2>1, <2>2, <2>3, <2>4
  <2>6. Null' = Null
    BY DEF Null
  <2>7. QED
    BY <1>1, <1>2, <1>5, <2>4, <2>5, <2>6 DEF ScratchFollowsPass
<1>8. QED
  BY <1>2, <1>4, <1>6, <1>7 DEF LInv

LEMMA EndParametersKeepsLInv ==
  ASSUME LInv, EndParameters
  PROVE  LInv'
<1>1. /\ UNCHANGED serializerVars /\ pass = "parameters" /\ position = 0 /\ position' = 1
      /\ pass' = "reset" /\ UNCHANGED <<call, filled, user_data, data_counts>>
  BY DEF EndParameters, Enter
<1>2. /\ SInv' /\ result' = result /\ Nodes' = Nodes /\ structure' = structure
      /\ \A i : FromOn(i)' = FromOn(i)
      /\ Serialized' <=> Serialized
      /\ \A n : NoCounts(structure', n) = NoCounts(structure, n)
  BY <1>1, ListStays
<1>3. Len(result) \in Nat /\ FromOn(1) = Range(result)
  BY ListFacts, FromOnEnds DEF LInv
<1>4. Control'
  BY <1>1, <1>2, <1>3 DEF LInv, Control
<1>5. FromOn(position)' = FromOn(position + 1) /\ FromOn(position)' = Range(result)
  BY <1>1, <1>2, <1>3 DEF FromOn
<1>6. VectorsFollowPass' /\ ScratchFollowsPass' /\ CountsFollowPass'
  BY <1>1, <1>2, <1>5 DEF LInv, VectorsFollowPass, ScratchFollowsPass, CountsFollowPass
<1>7. QED
  BY <1>2, <1>4, <1>6 DEF LInv

LEMMA ResetNodeKeepsLInv ==
  ASSUME LInv, ResetNode
  PROVE  LInv'
<1>1. /\ UNCHANGED serializerVars /\ pass = "reset" /\ position <= Len(result)
      /\ position' = position + 1
      /\ user_data' = [user_data EXCEPT ![At] = Null]
      /\ data_counts' = [data_counts EXCEPT ![At] = ResetCounts(At)]
      /\ UNCHANGED <<call, pass, filled>>
  BY DEF ResetNode, ResetScratch
<1>2. /\ SInv' /\ result' = result /\ Nodes' = Nodes /\ structure' = structure
      /\ \A i : FromOn(i)' = FromOn(i)
      /\ Serialized' <=> Serialized
      /\ \A n : NoCounts(structure', n) = NoCounts(structure, n)
  BY <1>1, ListStays
<1>3. position \in Nat /\ Len(result) \in Nat /\ position \in DOMAIN result /\ At \in Nodes
  BY <1>1, ListFacts DEF LInv, Control, At
<1>4. Control'
  BY <1>1, <1>2, <1>3 DEF LInv, Control
<1>5. FromOn(position)' = FromOn(position + 1) /\ FromOn(position + 1) = FromOn(position) \ {At}
  BY <1>1, <1>2, <1>3, FromOnStep DEF LInv, FromOn, At
<1>6. VectorsFollowPass'
  BY <1>1 DEF LInv, VectorsFollowPass
<1>7. ScratchFollowsPass'
  <2>1. /\ DOMAIN user_data = Nodes
        /\ \A n \in Nodes : user_data[n] # Null <=> n \in FromOn(position)
    BY <1>1 DEF LInv, ScratchFollowsPass
  <2>2. /\ DOMAIN user_data' = Nodes
        /\ \A n \in Nodes : user_data'[n] = IF n = At THEN Null ELSE user_data[n]
    BY <1>1, <2>1
  <2>3. \A n \in Nodes : user_data'[n] # Null <=> n \in FromOn(position + 1)
    BY <1>5, <2>1, <2>2
  <2>4. Null' = Null
    BY DEF Null
  <2>5. QED
    BY <1>1, <1>2, <1>5, <2>2, <2>3, <2>4 DEF ScratchFollowsPass
<1>8. CountsFollowPass'
  <2>1. /\ DOMAIN data_counts = Nodes
        /\ \A n \in Nodes : data_counts[n] # NoCounts(structure, n) =>
                            call = "learn" /\ n \in Range(result) /\ n \in FromOn(position)
    BY <1>1 DEF LInv, CountsFollowPass
  <2>2. /\ DOMAIN data_counts' = Nodes
        /\ \A n \in Nodes : data_counts'[n] = IF n = At THEN ResetCounts(At) ELSE data_counts[n]
    BY <1>1, <2>1
  <2>3. ResetCounts(At) = NoCounts(structure, At)
    BY <1>3, <2>1 DEF ResetCounts
  <2>4. QED
    BY <1>1, <1>2, <1>5, <2>1, <2>2, <2>3 DEF CountsFollowPass
<1>9. QED
  BY <1>2, <1>4, <1>6, <1>7, <1>8 DEF LInv

LEMMA ReturnKeepsLInv ==
  ASSUME LInv, Return
  PROVE  LInv'
<1>1. /\ pass = "reset" /\ position > Len(result)
      /\ call' = "none" /\ roots' = <<>> /\ next_root' = 1 /\ result' = <<>>
      /\ node_explored' = {} /\ explore_index' = 1 /\ edge' = 1
      /\ pass' = "return" /\ position' = 0
      /\ UNCHANGED <<structure, filled, data_counts, user_data>>
  BY DEF Return, Enter
<1>2. /\ FromOn(position) = {} /\ structure \in Structures
  BY <1>1, ListFacts, FromOnEnds DEF LInv, Control
<1>3. /\ \A n \in Nodes : user_data[n] = Null /\ data_counts[n] = NoCounts(structure, n)
      /\ DOMAIN user_data = Nodes /\ DOMAIN data_counts = Nodes /\ filled = {}
  BY <1>1, <1>2 DEF LInv, ScratchFollowsPass, CountsFollowPass, VectorsFollowPass
<1>4. /\ roots' \in Seq(Nat) /\ Len(roots') = 0 /\ DOMAIN roots' = {}
      /\ result' \in Seq(Nodes') /\ Len(result') = 0 /\ DOMAIN result' = {}
  BY <1>1
<1>5. SInv'
  <2>1. RootsAreGiven' /\ Start' /\ structure' \in Structures
    BY <1>1, <1>2, <1>4 DEF RootsAreGiven, Start
  <2>2. QED
    BY <2>1, RestartKeepsSInv
<1>6. Control'
  BY <1>1, <1>4 DEF Control, Start, Serialized, RootsTaken
<1>7. VectorsFollowPass' /\ ScratchFollowsPass' /\ CountsFollowPass'
  BY <1>1, <1>3 DEF VectorsFollowPass, ScratchFollowsPass, CountsFollowPass, Nodes
<1>8. QED
  BY <1>5, <1>6, <1>7 DEF LInv

-----------------------------------------------------------------------------
LEMMA LearnerStarts == LearnerInit => LInv
<1>1. SUFFICES ASSUME LearnerInit PROVE LInv
  OBVIOUS
<1>2. /\ structure \in Structures /\ roots = <<>> /\ Start
      /\ call = "none" /\ pass = "return" /\ position = 0 /\ filled = {}
      /\ data_counts = [n \in DOMAIN structure |-> NoCounts(structure, n)]
      /\ user_data = [n \in DOMAIN structure |-> Null]
  BY <1>1 DEF LearnerInit
<1>3. SInv
  BY <1>2, StartKeepsSInv DEF RootsAreGiven
<1>4. Control
  <2>1. Len(result) = 0 /\ Len(roots) = 0 /\ next_root = 1 /\ explore_index = 1
    BY <1>2 DEF Start
  <2>2. QED
    BY <1>2, <2>1 DEF Control, Serialized, RootsTaken
<1>5. VectorsFollowPass /\ ScratchFollowsPass /\ CountsFollowPass
  BY <1>2 DEF VectorsFollowPass, ScratchFollowsPass, CountsFollowPass, Nodes
<1>6. QED
  BY <1>3, <1>4, <1>5 DEF LInv

LEMMA LearnerKeepsLInv == LInv /\ [Next]_vars => LInv'
<1>1. SUFFICES ASSUME LInv, [Next]_vars PROVE LInv'
  OBVIOUS
<1>2. CASE BeginCall
  BY <1>1, <1>2, BeginCallKeepsLInv
<1>3. CASE Serialize \/ EndSerialize
  BY <1>1, <1>3, SerializeKeepsLInv, EndSerializeKeepsLInv
<1>4. CASE ComputeValue \/ EndValues
  BY <1>1, <1>4, ComputeValueKeepsLInv, EndValuesKeepsLInv
<1>5. CASE ComputeContext \/ EndContexts
  BY <1>1, <1>5, ComputeContextKeepsLInv, EndContextsKeepsLInv
<1>6. CASE MakeNode \/ EndParameters
  BY <1>1, <1>6, MakeNodeKeepsLInv, EndParametersKeepsLInv
<1>7. CASE ResetNode \/ Return
  BY <1>1, <1>7, ResetNodeKeepsLInv, ReturnKeepsLInv
<1>8. CASE UNCHANGED vars
  <2>1. UNCHANGED serializerVars /\ UNCHANGED <<call, pass, position, filled, user_data, data_counts>>
    BY <1>8 DEF vars, passVars
  <2>2. /\ SInv' /\ result' = result /\ Nodes' = Nodes /\ structure' = structure
        /\ \A i : FromOn(i)' = FromOn(i)
        /\ Serialized' <=> Serialized
        /\ \A n : NoCounts(structure', n) = NoCounts(structure, n)
    BY <1>1, <2>1, ListStays
  <2>3. Control'
    BY <1>1, <2>1, <2>2 DEF LInv, Control, Start, serializerVars
  <2>4. FromOn(position + 1)' = FromOn(position + 1) /\ FromOn(position)' = FromOn(position)
    BY <2>1, <2>2 DEF FromOn
  <2>5. VectorsFollowPass' /\ ScratchFollowsPass' /\ CountsFollowPass'
    BY <1>1, <2>1, <2>2, <2>4 DEF LInv, VectorsFollowPass, ScratchFollowsPass, CountsFollowPass
  <2>6. QED
    BY <2>2, <2>3, <2>5 DEF LInv
<1>9. QED
  BY <1>1, <1>2, <1>3, <1>4, <1>5, <1>6, <1>7, <1>8 DEF Next, Work

(***************************************************************************)
(* The invariant of all calls.                                             *)
(***************************************************************************)
THEOREM LearnerInvariant == Spec => []LInv
<1>1. LearnerInit => LInv
  BY LearnerStarts
<1>2. LInv /\ [Next]_vars => LInv'
  BY LearnerKeepsLInv
<1>3. QED
  BY <1>1, <1>2, PTL DEF Spec

\* No pass reads a vector or a scratch word that is not set.
THEOREM OperandsReady == Spec => []OperandsAreReady
<1>1. LInv => OperandsAreReady
  BY LInvImpliesReady
<1>2. QED
  BY <1>1, LearnerInvariant, PTL

\* A call leaves nothing in the nodes.
THEOREM ScratchClean == Spec => []ScratchIsClean
<1>1. LInv => ScratchIsClean
  BY LInvImpliesClean
<1>2. QED
  BY <1>1, LearnerInvariant, PTL

\* The lists of all calls have parents first.
THEOREM CallsHaveParentsFirst == Spec => []ParentsFirst
<1>1. LInv => ParentsFirst
  BY SInvImpliesParentsFirst DEF LInv
<1>2. QED
  BY <1>1, LearnerInvariant, PTL

\* The lists of all calls are complete and without duplicates.
THEOREM CallsSeeEachNodeOnce == Spec => []EachNodeOnce
<1>1. LInv => EachNodeOnce
  BY SInvImpliesEachNodeOnce DEF LInv
<1>2. QED
  BY <1>1, LearnerInvariant, PTL

-----------------------------------------------------------------------------
(***************************************************************************)
(* The results.  What a call should return is defined by recursion over    *)
(* the nodes: which examples make a node true, downwards, which of them    *)
(* reach it, upwards, and the new nodes.                                   *)
(***************************************************************************)
ExamplesOf(d) == 1..d.data_size

\* The examples that make a node true, those that reach it, those that take an element of it.
TrueIn(g, d, n) == {x \in ExamplesOf(d) : IsTrueUnder(g, d.examples, x)[n]}
ReachedIn(g, d, r, n) == {x \in ExamplesOf(d) : IsReachedBy(g, d.examples, r, x)[n]}
TakenIn(g, d, r, n, i) ==
  ReachedIn(g, d, r, n) \cap TrueIn(g, d, g[n].primes[i]) \cap TrueIn(g, d, g[n].subs[i])

BatchInv ==
  /\ batch.data_size \in Nat
  /\ call = "learn" => Len(roots) = 1

ValuesInv ==
  /\ DOMAIN value = Nodes
  /\ pass = "values" => \A n \in FromOn(position + 1) : value[n] = TrueIn(structure, batch, n)
  /\ pass = "contexts" => \A n \in FromOn(position) : value[n] = TrueIn(structure, batch, n)

\* What the nodes before a place of the list have passed on to n.
PassedOn(x, n, place) ==
  \E k \in DOMAIN result : /\ k < place
                           /\ \E i \in Elements(result[k]) :
                                /\ n \in {Primes(result[k])[i], Subs(result[k])[i]}
                                /\ x \in TakenIn(structure, batch, roots[1], result[k], i)

ContextsInv ==
  /\ DOMAIN context = Nodes
  /\ pass = "values" => \A n \in FromOn(position + 1) : context[n] = {}
  /\ pass = "contexts" =>
       \A n \in FromOn(position) : \A x :
         x \in context[n] <=> /\ x \in ExamplesOf(batch)
                              /\ n = roots[1] \/ PassedOn(x, n, position)

CountsInv ==
  /\ pass = "contexts" =>
       /\ \A n \in FromOn(position) : data_counts[n] = NoCounts(structure, n)
       /\ \A n \in Range(result) \ FromOn(position) :
            data_counts[n] = ExpectedCounts(structure, batch, roots[1], n)
  /\ pass = "parameters" =>
       \A n \in Range(result) :
         data_counts[n] = IF call = "learn" THEN ExpectedCounts(structure, batch, roots[1], n)
                                            ELSE NoCounts(structure, n)

ExpectedNodes == LearnedNodes(structure, [n \in DOMAIN structure |-> ExpectedParameters(n)])

NewNodesInv ==
  pass = "parameters" => \A n \in FromOn(position + 1) : user_data[n] = ExpectedNodes[n]

GInv == /\ LInv /\ BatchInv /\ ValuesInv /\ ContextsInv /\ CountsInv /\ NewNodesInv
        /\ ReturnsExpected

-----------------------------------------------------------------------------
\* The truth of nodes is the least set of nodes that is closed under MakesTrue.
LEMMA TrueUnfolds ==
  ASSUME NEW g \in Structures, NEW examples, NEW x
  PROVE  \A n \in DOMAIN g : IsTrueUnder(g, examples, x)[n]
                               <=> MakesTrue(g, examples, x, n, IsTrueUnder(g, examples, x))
<1> DEFINE N == DOMAIN g
           Leaf(n) == \/ g[n].type = "literal" /\ g[n].sign = (x \in examples[g[n].variable])
                      \/ g[n].type = "top"
           Holds(n, S) == \/ Leaf(n)
                          \/ \E i \in DOMAIN g[n].primes : g[n].primes[i] \in S /\ g[n].subs[i] \in S
           Closed(S) == \A n \in N : Holds(n, S) => n \in S
           T == {n \in N : \A S \in SUBSET N : Closed(S) => n \in S}
           U == {n \in N : Holds(n, T)}
           f == [n \in N |-> n \in T]
<1>1. \A S, R : S \subseteq R => \A n : Holds(n, S) => Holds(n, R)
  OBVIOUS
<1>2. \A S \in SUBSET N : Closed(S) => T \subseteq S
  OBVIOUS
<1>3. U \subseteq T
  <2>1. ASSUME NEW n \in N, Holds(n, T), NEW S \in SUBSET N, Closed(S) PROVE n \in S
    <3>1. T \subseteq S
      BY <1>2, <2>1
    <3> HIDE DEF T, Leaf
    <3>2. Holds(n, S)
      BY <2>1, <3>1
    <3>3. QED
      BY <2>1, <3>2
  <2> HIDE DEF Holds, Closed
  <2>2. QED
    BY <2>1
<1>4. T \subseteq U
  <2>1. Closed(U) /\ U \in SUBSET N
    <3> HIDE DEF T, Leaf
    <3>1. QED
      BY <1>3
  <2>2. QED
    BY <1>2, <2>1
<1>5. \A n \in N : n \in T <=> Holds(n, T)
  BY <1>3, <1>4
<1>6. \A n \in N : f[n] = (n \in T)
  OBVIOUS
<1>7. \A n \in N : \A i \in DOMAIN g[n].primes : g[n].primes[i] \in N /\ g[n].subs[i] \in N
  BY GraphFacts
<1> HIDE DEF T
<1>8. \A n \in N : (n \in T) <=> MakesTrue(g, examples, x, n, f)
  BY <1>5, <1>6, <1>7 DEF MakesTrue
<1>9. \A n \in N : MakesTrue(g, examples, x, n, f) \in BOOLEAN
  BY DEF MakesTrue
<1>10. \A n \in N : (n \in T) = MakesTrue(g, examples, x, n, f)
  BY <1>8, <1>9
<1>11. f = [n \in DOMAIN g |-> MakesTrue(g, examples, x, n, f)]
  <2>1. [n \in N |-> n \in T] = [n \in N |-> MakesTrue(g, examples, x, n, f)]
    BY <1>10, Zenon
  <2>2. QED
    BY <2>1, Zenon
<1> HIDE DEF f
<1>12. \E h : h = [n \in DOMAIN g |-> MakesTrue(g, examples, x, n, h)]
  BY <1>11, Zenon
<1>13. IsTrueUnder(g, examples, x)
         = [n \in DOMAIN g |-> MakesTrue(g, examples, x, n, IsTrueUnder(g, examples, x))]
  BY <1>12, Zenon DEF IsTrueUnder
<1>14. \A n \in DOMAIN g : IsTrueUnder(g, examples, x)[n]
                             = MakesTrue(g, examples, x, n, IsTrueUnder(g, examples, x))
  BY <1>13, Zenon
<1>15. QED
  BY <1>14, Zenon

\* So is what an example reaches.
LEMMA ReachedUnfolds ==
  ASSUME NEW g \in Structures, NEW examples, NEW r, NEW x
  PROVE  \A n \in DOMAIN g : IsReachedBy(g, examples, r, x)[n]
                               <=> Reaches(g, examples, r, x, n, IsReachedBy(g, examples, r, x))
<1> DEFINE N == DOMAIN g
           Step(p, n) == \E i \in DOMAIN g[p].primes :
                           n \in {g[p].primes[i], g[p].subs[i]} /\ Takes(g, examples, x, p, i)
           Holds(n, S) == n = r \/ \E p \in N : p \in S /\ Step(p, n)
           Closed(S) == \A n \in N : Holds(n, S) => n \in S
           T == {n \in N : \A S \in SUBSET N : Closed(S) => n \in S}
           U == {n \in N : Holds(n, T)}
           f == [n \in N |-> n \in T]
<1> HIDE DEF Step
<1>2. \A S \in SUBSET N : Closed(S) => T \subseteq S
  OBVIOUS
<1>3. U \subseteq T
  <2>1. ASSUME NEW n \in N, Holds(n, T), NEW S \in SUBSET N, Closed(S) PROVE n \in S
    <3>1. T \subseteq S
      BY <1>2, <2>1
    <3> HIDE DEF T
    <3>2. Holds(n, S)
      BY <2>1, <3>1
    <3>3. QED
      BY <2>1, <3>2
  <2> HIDE DEF Holds, Closed
  <2>2. QED
    BY <2>1
<1>4. T \subseteq U
  <2>1. Closed(U) /\ U \in SUBSET N
    <3> HIDE DEF T
    <3>1. QED
      BY <1>3
  <2>2. QED
    BY <1>2, <2>1
<1>5. \A n \in N : n \in T <=> Holds(n, T)
  BY <1>3, <1>4
<1>6. \A n \in N : f[n] = (n \in T)
  OBVIOUS
<1> HIDE DEF T
<1>7. \A n \in N : (n \in T) <=> Reaches(g, examples, r, x, n, f)
  <2>1. ASSUME NEW n \in N PROVE Reaches(g, examples, r, x, n, f) <=> Holds(n, T)
    <3>1. Reaches(g, examples, r, x, n, f) <=> n = r \/ \E p \in N : f[p] /\ Step(p, n)
      <4> HIDE DEF f
      <4>1. QED
        BY Zenon DEF Reaches, Step
    <3> HIDE DEF f
    <3>2. QED
      BY <1>6, <3>1
  <2>2. QED
    BY <1>5, <2>1
<1>8. \A n \in N : Reaches(g, examples, r, x, n, f) \in BOOLEAN
  BY DEF Reaches
<1>9. \A n \in N : (n \in T) = Reaches(g, examples, r, x, n, f)
  BY <1>7, <1>8
<1>10. f = [n \in DOMAIN g |-> Reaches(g, examples, r, x, n, f)]
  <2>1. [n \in N |-> n \in T] = [n \in N |-> Reaches(g, examples, r, x, n, f)]
    BY <1>9, Zenon
  <2>2. QED
    BY <2>1, Zenon
<1> HIDE DEF f
<1>11. \E h : h = [n \in DOMAIN g |-> Reaches(g, examples, r, x, n, h)]
  BY <1>10, Zenon
<1>12. IsReachedBy(g, examples, r, x)
         = [n \in DOMAIN g |-> Reaches(g, examples, r, x, n, IsReachedBy(g, examples, r, x))]
  BY <1>11, Zenon DEF IsReachedBy
<1>13. \A n \in DOMAIN g : IsReachedBy(g, examples, r, x)[n]
                             = Reaches(g, examples, r, x, n, IsReachedBy(g, examples, r, x))
  BY <1>12, Zenon
<1>14. QED
  BY <1>13, Zenon

-----------------------------------------------------------------------------
\* The examples under which a node is true, from those of its children.
LEMMA ValueIsTrueIn ==
  ASSUME structure \in Structures, NEW n \in Nodes,
         \A i \in Elements(n) : /\ value[Primes(n)[i]] = TrueIn(structure, batch, Primes(n)[i])
                                /\ value[Subs(n)[i]] = TrueIn(structure, batch, Subs(n)[i])
  PROVE  ValueOf(n) = TrueIn(structure, batch, n)
<1>1. PICK g, d : g = structure /\ d = batch
  OBVIOUS
<1>2. /\ g \in Structures /\ n \in DOMAIN g
      /\ g[n].type \in {"literal", "top", "decision"}
      /\ g[n].type # "decision" => DOMAIN g[n].primes = {}
  BY <1>1, GraphFacts DEF Nodes
<1>3. \A x : x \in TrueIn(g, d, n) <=>
               x \in ExamplesOf(d) /\ MakesTrue(g, d.examples, x, n, IsTrueUnder(g, d.examples, x))
  BY <1>2, TrueUnfolds DEF TrueIn
<1>4. \A i \in DOMAIN g[n].primes : /\ value[g[n].primes[i]] = TrueIn(g, d, g[n].primes[i])
                                    /\ value[g[n].subs[i]] = TrueIn(g, d, g[n].subs[i])
  BY <1>1 DEF Elements, Primes, Subs
<1>5. CASE g[n].type = "literal"
  <2>1. \A x : x \in TrueIn(g, d, n) <=>
                 x \in ExamplesOf(d) /\ g[n].sign = (x \in d.examples[g[n].variable])
    BY <1>2, <1>3, <1>5 DEF MakesTrue
  <2>2. ValueOf(n) = {x \in ExamplesOf(d) : (x \in d.examples[g[n].variable]) = g[n].sign}
    BY <1>1, <1>5 DEF ValueOf, TypeOf, AllExamples, ExamplesOf
  <2>3. QED
    BY <1>1, <2>1, <2>2
<1>6. CASE g[n].type = "top"
  <2>1. \A x : x \in TrueIn(g, d, n) <=> x \in ExamplesOf(d)
    BY <1>3, <1>6 DEF MakesTrue
  <2>2. ValueOf(n) = ExamplesOf(d)
    BY <1>1, <1>6 DEF ValueOf, TypeOf, AllExamples, ExamplesOf
  <2>3. QED
    BY <1>1, <2>1, <2>2
<1>7. CASE g[n].type = "decision"
  <2>1. ASSUME NEW x
        PROVE  x \in TrueIn(g, d, n) <=>
                 \E i \in DOMAIN g[n].primes : /\ x \in TrueIn(g, d, g[n].primes[i])
                                               /\ x \in TrueIn(g, d, g[n].subs[i])
    <3>1. x \in TrueIn(g, d, n) <=>
            x \in ExamplesOf(d) /\ \E i \in DOMAIN g[n].primes :
                                     /\ IsTrueUnder(g, d.examples, x)[g[n].primes[i]]
                                     /\ IsTrueUnder(g, d.examples, x)[g[n].subs[i]]
      BY <1>3, <1>7 DEF MakesTrue
    <3>2. QED
      BY <3>1 DEF TrueIn
  <2>2. ValueOf(n) = UNION {value[g[n].primes[i]] \cap value[g[n].subs[i]] : i \in DOMAIN g[n].primes}
    BY <1>1, <1>7 DEF ValueOf, TypeOf, Primes, Subs, Elements
  <2>3. \A x : x \in ValueOf(n) <=>
                 \E i \in DOMAIN g[n].primes : /\ x \in TrueIn(g, d, g[n].primes[i])
                                               /\ x \in TrueIn(g, d, g[n].subs[i])
    BY <1>4, <2>2
  <2>4. QED
    BY <1>1, <2>1, <2>2, <2>3
<1>8. QED
  BY <1>2, <1>5, <1>6, <1>7

\* Only nodes under the root are reached.
LEMMA ReachedAreBelow ==
  ASSUME NEW g \in Structures, NEW examples, NEW r, NEW x,
         NEW L \in SUBSET DOMAIN g, IsClosedIn(g, L), r \in L
  PROVE  \A n \in DOMAIN g : IsReachedBy(g, examples, r, x)[n] => n \in L
<1> DEFINE R(n) == IsReachedBy(g, examples, r, x)[n]
           Outside == {g[n].depth : n \in {m \in DOMAIN g : R(m) /\ m \notin L}}
<1>1. SUFFICES ASSUME Outside # {} PROVE FALSE
  OBVIOUS
<1>2. Outside \in SUBSET Nat
  BY GraphFacts
<1>3. PICK e \in Outside : \A y \in Outside : e <= y
  <2> HIDE DEF Outside
  <2>1. QED
    BY <1>1, <1>2, LeastOf
<1>4. PICK n \in DOMAIN g : R(n) /\ n \notin L /\ e = g[n].depth
  OBVIOUS
<1>5. PICK p \in DOMAIN g :
        \E i \in DOMAIN g[p].primes : n \in {g[p].primes[i], g[p].subs[i]} /\ R(p)
  <2>1. Reaches(g, examples, r, x, n, IsReachedBy(g, examples, r, x))
    BY <1>4, ReachedUnfolds
  <2>2. QED
    BY <1>4, <2>1 DEF Reaches
<1>6. n \in ChildrenIn(g, p) /\ g[n].depth = g[p].depth + 1 /\ g[p].depth \in Nat
  BY <1>5, GraphFacts
<1>7. p \notin L
  BY <1>4, <1>6 DEF IsClosedIn
<1>8. g[p].depth \in Outside
  BY <1>5, <1>7
<1> HIDE DEF Outside
<1>9. e <= g[p].depth
  BY <1>3, <1>8
<1>10. QED
  BY <1>4, <1>6, <1>9

\* The examples that reach a node, from those that reach its parents.
LEMMA ReachedFromParents ==
  ASSUME NEW g \in Structures, NEW d, NEW r,
         NEW L \in SUBSET DOMAIN g, IsClosedIn(g, L), r \in L,
         NEW n \in DOMAIN g, NEW x
  PROVE  x \in ReachedIn(g, d, r, n) <=>
           /\ x \in ExamplesOf(d)
           /\ \/ n = r
              \/ \E p \in L : \E i \in DOMAIN g[p].primes :
                   n \in {g[p].primes[i], g[p].subs[i]} /\ x \in TakenIn(g, d, r, p, i)
<1>1. \A p \in DOMAIN g : IsReachedBy(g, d.examples, r, x)[p] => p \in L
  BY ReachedAreBelow
<1>2. IsReachedBy(g, d.examples, r, x)[n] <=>
        Reaches(g, d.examples, r, x, n, IsReachedBy(g, d.examples, r, x))
  BY ReachedUnfolds
<1>3. ASSUME x \in ExamplesOf(d), NEW p \in L, NEW i \in DOMAIN g[p].primes
      PROVE  x \in TakenIn(g, d, r, p, i) <=>
               IsReachedBy(g, d.examples, r, x)[p] /\ Takes(g, d.examples, x, p, i)
  BY <1>3 DEF TakenIn, TrueIn, ReachedIn, Takes
<1>4. x \in ReachedIn(g, d, r, n) <=> x \in ExamplesOf(d) /\ IsReachedBy(g, d.examples, r, x)[n]
  BY DEF ReachedIn
<1>5. IsReachedBy(g, d.examples, r, x)[n] <=>
        \/ n = r
        \/ \E p \in L : \E i \in DOMAIN g[p].primes :
             /\ n \in {g[p].primes[i], g[p].subs[i]}
             /\ IsReachedBy(g, d.examples, r, x)[p] /\ Takes(g, d.examples, x, p, i)
  BY <1>1, <1>2 DEF Reaches
<1>6. QED
  BY <1>3, <1>4, <1>5

\* What counts should be, in sets of examples.
LEMMA CountsExpected ==
  ASSUME NEW g, NEW d, NEW r, NEW n
  PROVE  ExpectedCounts(g, d, r, n) =
           IF g[n].type = "top"
             THEN [true |-> Cardinality(ReachedIn(g, d, r, n) \cap d.examples[g[n].variable]),
                   false |-> Cardinality(ReachedIn(g, d, r, n) \ d.examples[g[n].variable])]
             ELSE [i \in DOMAIN g[n].primes |-> Cardinality(TakenIn(g, d, r, n, i))]
<1>1. \A i \in DOMAIN g[n].primes :
        {x \in ReachedIn(g, d, r, n) : Takes(g, d.examples, x, n, i)} = TakenIn(g, d, r, n, i)
  BY DEF TakenIn, TrueIn, ReachedIn, Takes
<1>2. \A i \in DOMAIN g[n].primes :
        Cardinality({x \in ReachedIn(g, d, r, n) : Takes(g, d.examples, x, n, i)})
          = Cardinality(TakenIn(g, d, r, n, i))
  BY <1>1, Zenon
<1>3. [i \in DOMAIN g[n].primes |->
         Cardinality({x \in ReachedIn(g, d, r, n) : Takes(g, d.examples, x, n, i)})]
        = [i \in DOMAIN g[n].primes |-> Cardinality(TakenIn(g, d, r, n, i))]
  BY <1>2, Zenon
<1>4. ExpectedCounts(g, d, r, n) =
        IF g[n].type = "top"
          THEN [true |-> Cardinality(ReachedIn(g, d, r, n) \cap d.examples[g[n].variable]),
                false |-> Cardinality(ReachedIn(g, d, r, n) \ d.examples[g[n].variable])]
          ELSE [i \in DOMAIN g[n].primes |->
                  Cardinality({x \in ReachedIn(g, d, r, n) : Takes(g, d.examples, x, n, i)})]
  BY Zenon DEF ExpectedCounts, ReachedIn, ExamplesOf
<1>5. QED
  BY <1>3, <1>4, Zenon

LEMMA SizesAreNumbers ==
  ASSUME NEW d, d.data_size \in Nat, NEW S \in SUBSET ExamplesOf(d)
  PROVE  Cardinality(S) \in Nat /\ (d.data_size = 0 => Cardinality(S) = 0)
<1>1. IsFiniteSet(ExamplesOf(d))
  BY FS_Interval DEF ExamplesOf
<1>2. Cardinality(S) \in Nat
  BY <1>1, FS_Subset, FS_CardinalityType
<1>3. d.data_size = 0 => S = {}
  BY DEF ExamplesOf
<1>4. QED
  BY <1>2, <1>3, FS_EmptySet

\* Without examples nothing is counted.
LEMMA NothingToCount ==
  ASSUME NEW g, NEW d, d.data_size = 0, NEW r, NEW n
  PROVE  ExpectedCounts(g, d, r, n) = NoCounts(g, n)
<1>1. \A S \in SUBSET ExamplesOf(d) : Cardinality(S) = 0
  BY SizesAreNumbers
<1>2. /\ Cardinality(ReachedIn(g, d, r, n) \cap d.examples[g[n].variable]) = 0
      /\ Cardinality(ReachedIn(g, d, r, n) \ d.examples[g[n].variable]) = 0
      /\ \A i : Cardinality(TakenIn(g, d, r, n, i)) = 0
  BY <1>1 DEF ReachedIn, TakenIn
<1>3. CASE g[n].type = "top"
  <2>1. ExpectedCounts(g, d, r, n) = [true |-> 0, false |-> 0]
    BY <1>2, <1>3, CountsExpected, Zenon
  <2>2. NoCounts(g, n) = [k \in {"true", "false"} |-> 0]
    BY <1>3 DEF NoCounts, Counters
  <2>3. QED
    BY <2>1, <2>2
<1>4. CASE g[n].type # "top"
  <2>1. ExpectedCounts(g, d, r, n) = [i \in DOMAIN g[n].primes |-> Cardinality(TakenIn(g, d, r, n, i))]
    BY <1>4, CountsExpected, Zenon
  <2>2. NoCounts(g, n) = [i \in DOMAIN g[n].primes |-> 0]
    BY <1>4, Zenon DEF NoCounts, Counters
  <2>3. QED
    BY <1>2, <2>1, <2>2, Zenon
<1>5. QED
  BY <1>3, <1>4

\* The counts of a node that is reached by what its context says.
LEMMA CountsAreExpected ==
  ASSUME structure \in Structures, batch.data_size \in Nat, NEW n \in Nodes,
         context[n] = ReachedIn(structure, batch, roots[1], n),
         \A i \in Elements(n) : /\ value[Primes(n)[i]] = TrueIn(structure, batch, Primes(n)[i])
                                /\ value[Subs(n)[i]] = TrueIn(structure, batch, Subs(n)[i]),
         data_counts[n] = NoCounts(structure, n)
  PROVE  [k \in DOMAIN data_counts[n] |-> data_counts[n][k] + CountsOf(n)[k]]
           = ExpectedCounts(structure, batch, roots[1], n)
<1>1. PICK g, d, r, counts : g = structure /\ d = batch /\ r = roots[1] /\ counts = data_counts[n]
  OBVIOUS
<1>2. counts = [k \in Counters(g, n) |-> 0]
  BY <1>1 DEF NoCounts
<1>3. DOMAIN counts = Counters(g, n) /\ \A k \in Counters(g, n) : counts[k] = 0
  BY <1>2
<1>4. ReachedIn(g, d, r, n) \in SUBSET ExamplesOf(d) /\ d.data_size \in Nat
  BY <1>1 DEF ReachedIn
<1>5. CASE g[n].type = "top"
  <2>1. PICK a, b : /\ a = Cardinality(ReachedIn(g, d, r, n) \cap d.examples[g[n].variable])
                    /\ b = Cardinality(ReachedIn(g, d, r, n) \ d.examples[g[n].variable])
    OBVIOUS
  <2>2. a \in Nat /\ b \in Nat
    <3>1. /\ ReachedIn(g, d, r, n) \cap d.examples[g[n].variable] \in SUBSET ExamplesOf(d)
          /\ ReachedIn(g, d, r, n) \ d.examples[g[n].variable] \in SUBSET ExamplesOf(d)
      BY <1>4
    <3>2. QED
      BY <1>4, <2>1, <3>1, SizesAreNumbers
  <2>3. CountsOf(n) = [true |-> a, false |-> b]
    BY <1>1, <1>5, <2>1, Zenon DEF CountsOf, TypeOf
  <2>4. ExpectedCounts(g, d, r, n) = [true |-> a, false |-> b]
    BY <1>5, <2>1, CountsExpected, Zenon
  <2>5. Counters(g, n) = {"true", "false"}
    BY <1>5 DEF Counters
  <2>6. [k \in DOMAIN counts |-> counts[k] + CountsOf(n)[k]] = [true |-> a, false |-> b]
    <3>1. PICK c : c = CountsOf(n) /\ c = [true |-> a, false |-> b]
      BY <2>3
    <3>2. c["true"] = a /\ c["false"] = b
      BY <3>1
    <3>3. counts["true"] + c["true"] = a /\ counts["false"] + c["false"] = b
      BY <1>3, <2>2, <2>5, <3>2
    <3>4. [k \in {"true", "false"} |-> counts[k] + c[k]] = [true |-> a, false |-> b]
      BY <3>3
    <3>5. QED
      BY <1>3, <2>5, <3>1, <3>4, Zenon
  <2>7. QED
    BY <1>1, <2>4, <2>6, Zenon
<1>6. CASE g[n].type # "top"
  <2>1. Counters(g, n) = DOMAIN g[n].primes
    BY <1>6 DEF Counters
  <2>2. CountsOf(n) = [i \in DOMAIN g[n].primes |-> Cardinality(Flow(n, i))]
    BY <1>1, <1>6, Zenon DEF CountsOf, TypeOf, Elements, Primes
  <2>3. \A i \in DOMAIN g[n].primes : Flow(n, i) = TakenIn(g, d, r, n, i)
    BY <1>1 DEF Flow, TakenIn, Elements, Primes, Subs
  <2>4. \A i \in DOMAIN g[n].primes : Cardinality(TakenIn(g, d, r, n, i)) \in Nat
    <3>1. \A i : TakenIn(g, d, r, n, i) \in SUBSET ExamplesOf(d)
      BY <1>4 DEF TakenIn
    <3>2. QED
      BY <1>4, <3>1, SizesAreNumbers
  <2>5. \A i \in DOMAIN g[n].primes : CountsOf(n)[i] = Cardinality(TakenIn(g, d, r, n, i))
    BY <2>2, <2>3, Zenon
  <2>6. \A i \in DOMAIN g[n].primes :
          counts[i] + CountsOf(n)[i] = Cardinality(TakenIn(g, d, r, n, i))
    BY <1>3, <2>1, <2>4, <2>5
  <2>7. [k \in DOMAIN counts |-> counts[k] + CountsOf(n)[k]]
          = [i \in DOMAIN g[n].primes |-> Cardinality(TakenIn(g, d, r, n, i))]
    BY <1>3, <2>1, <2>6, Zenon
  <2>8. ExpectedCounts(g, d, r, n)
          = [i \in DOMAIN g[n].primes |-> Cardinality(TakenIn(g, d, r, n, i))]
    BY <1>6, CountsExpected, Zenon
  <2>9. QED
    BY <1>1, <2>7, <2>8, Zenon
<1>7. QED
  BY <1>5, <1>6

-----------------------------------------------------------------------------
\* A new node depends on those of the children only.
LEMMA LearnedAgrees ==
  ASSUME NEW g \in Structures, NEW parameters, NEW n \in DOMAIN g, NEW f, NEW h,
         \A i \in DOMAIN g[n].primes : /\ f[g[n].primes[i]] = h[g[n].primes[i]]
                                       /\ f[g[n].subs[i]] = h[g[n].subs[i]]
  PROVE  LearnedNode(g, parameters, n, f) = LearnedNode(g, parameters, n, h)
<1>1. {<<f[g[n].primes[i]], f[g[n].subs[i]], parameters[n][i]>> : i \in DOMAIN g[n].primes}
        = {<<h[g[n].primes[i]], h[g[n].subs[i]], parameters[n][i]>> : i \in DOMAIN g[n].primes}
  OBVIOUS
<1>2. g[n].type \in {"literal", "top", "decision"}
  BY GraphFacts
<1>3. CASE g[n].type = "decision"
  BY <1>1, <1>3 DEF LearnedNode
<1>4. CASE g[n].type \in {"literal", "top"}
  BY <1>4 DEF LearnedNode
<1>5. QED
  BY <1>2, <1>3, <1>4

\* f has the new nodes for the nodes before k.
Learns(g, parameters, f, k) ==
  f = [n \in {m \in DOMAIN g : m < k} |-> LearnedNode(g, parameters, n, f)]

LEMMA LearningGrows ==
  ASSUME NEW g \in Structures, NEW parameters, NEW k \in Nat, NEW f,
         Learns(g, parameters, f, k)
  PROVE  \E h : Learns(g, parameters, h, k + 1)
<1> DEFINE N(j) == {m \in DOMAIN g : m < j}
           h == [n \in N(k + 1) |-> LearnedNode(g, parameters, n, f)]
<1>1. \A n \in N(k) : f[n] = LearnedNode(g, parameters, n, f)
  <2>1. f = [n \in N(k) |-> LearnedNode(g, parameters, n, f)]
    BY Zenon DEF Learns
  <2>2. QED
    BY <2>1, Zenon
<1>2. \A n \in N(k + 1) : h[n] = LearnedNode(g, parameters, n, f)
  BY Zenon
<1>3. \A n \in DOMAIN g : n \in Nat
  BY GraphFacts
<1>4. \A n \in N(k) : n \in N(k + 1)
  BY <1>3
<1> HIDE DEF h
<1>5. ASSUME NEW n \in N(k + 1)
      PROVE  LearnedNode(g, parameters, n, f) = LearnedNode(g, parameters, n, h)
  <2>1. \A i \in DOMAIN g[n].primes : g[n].primes[i] \in N(k) /\ g[n].subs[i] \in N(k)
    <3>1. ASSUME NEW i \in DOMAIN g[n].primes, NEW c \in {g[n].primes[i], g[n].subs[i]}
          PROVE  c \in N(k)
      <4>1. c \in DOMAIN g /\ c < n
        BY GraphFacts
      <4>2. c \in Nat /\ n \in Nat /\ n < k + 1
        BY <1>3, <4>1
      <4>3. QED
        BY <4>1, <4>2
    <3>2. QED
      BY <3>1
  <2>2. \A c \in N(k) : f[c] = h[c]
    BY <1>1, <1>2, <1>4
  <2> HIDE DEF N
  <2>3. n \in DOMAIN g
    BY DEF N
  <2>4. QED
    BY <2>1, <2>2, <2>3, LearnedAgrees
<1>6. h = [n \in N(k + 1) |-> LearnedNode(g, parameters, n, h)]
  <2>1. h = [n \in N(k + 1) |-> LearnedNode(g, parameters, n, f)]
    BY Zenon DEF h
  <2>2. QED
    BY <1>5, <2>1, Zenon
<1>7. QED
  BY <1>6, Zenon DEF Learns

LEMMA LearningExists ==
  ASSUME NEW g \in Structures, NEW parameters
  PROVE  \A k \in Nat : \E f : Learns(g, parameters, f, k)
<1> DEFINE T == {k \in Nat : ~ \E f : Learns(g, parameters, f, k)}
<1>1. SUFFICES ASSUME T # {} PROVE FALSE
  OBVIOUS
<1>2. PICK x \in T : \A y \in T : x <= y
  <2>1. T \in SUBSET Nat
    OBVIOUS
  <2> HIDE DEF T
  <2>2. QED
    BY <1>1, <2>1, LeastOf
<1>3. x \in Nat /\ ~ \E f : Learns(g, parameters, f, x)
  OBVIOUS
<1>4. x # 0
  <2> DEFINE none == [n \in {} |-> 0]
  <2>1. {m \in DOMAIN g : m < 0} = {}
    BY GraphFacts
  <2>2. none = [n \in {} |-> LearnedNode(g, parameters, n, none)]
    OBVIOUS
  <2>3. Learns(g, parameters, none, 0)
    BY <2>1, <2>2, Zenon DEF Learns
  <2>4. QED
    BY <1>3, <2>3
<1>5. x - 1 \in Nat /\ (x - 1) + 1 = x /\ ~(x <= x - 1)
  BY <1>3, <1>4
<1>6. \E f : Learns(g, parameters, f, x - 1)
  BY <1>2, <1>5
<1>7. \E h : Learns(g, parameters, h, x)
  BY <1>5, <1>6, LearningGrows
<1>8. QED
  BY <1>3, <1>7

LEMMA LearningsAgree ==
  ASSUME NEW g \in Structures, NEW parameters, NEW j \in Nat, NEW k \in Nat, j <= k,
         NEW f, Learns(g, parameters, f, j), NEW h, Learns(g, parameters, h, k)
  PROVE  \A n \in DOMAIN g : n < j => f[n] = h[n]
<1> DEFINE T == {n \in DOMAIN g : n < j /\ f[n] # h[n]}
<1>1. SUFFICES ASSUME T # {} PROVE FALSE
  OBVIOUS
<1>2. \A n \in DOMAIN g : n \in Nat
  BY GraphFacts
<1>3. PICK x \in T : \A y \in T : x <= y
  <2>1. T \in SUBSET Nat
    BY <1>2
  <2> HIDE DEF T
  <2>2. QED
    BY <1>1, <2>1, LeastOf
<1>4. x \in DOMAIN g /\ x < j /\ x < k /\ x \in Nat /\ f[x] # h[x]
  BY <1>2
<1>5. \A i \in DOMAIN g[x].primes : /\ f[g[x].primes[i]] = h[g[x].primes[i]]
                                    /\ f[g[x].subs[i]] = h[g[x].subs[i]]
  <2>1. ASSUME NEW i \in DOMAIN g[x].primes, NEW c \in {g[x].primes[i], g[x].subs[i]}
        PROVE  f[c] = h[c]
    <3>1. c \in DOMAIN g /\ c < x
      BY <1>4, GraphFacts
    <3>2. c \in Nat /\ c < j /\ ~(x <= c)
      BY <1>2, <1>4, <3>1
    <3>3. QED
      BY <1>3, <3>1, <3>2
  <2>2. QED
    BY <2>1
<1>6. LearnedNode(g, parameters, x, f) = LearnedNode(g, parameters, x, h)
  BY <1>4, <1>5, LearnedAgrees
<1>7. f[x] = LearnedNode(g, parameters, x, f)
  <2>1. f = [n \in {m \in DOMAIN g : m < j} |-> LearnedNode(g, parameters, n, f)]
    BY Zenon DEF Learns
  <2>2. x \in {m \in DOMAIN g : m < j}
    BY <1>4
  <2>3. QED
    BY <2>1, <2>2, Zenon
<1>8. h[x] = LearnedNode(g, parameters, x, h)
  <2>1. h = [n \in {m \in DOMAIN g : m < k} |-> LearnedNode(g, parameters, n, h)]
    BY Zenon DEF Learns
  <2>2. x \in {m \in DOMAIN g : m < k}
    BY <1>4
  <2>3. QED
    BY <2>1, <2>2, Zenon
<1>9. QED
  BY <1>4, <1>6, <1>7, <1>8

\* The new nodes are what the recursion says.
LEMMA LearnedUnfolds ==
  ASSUME NEW g \in Structures, NEW parameters
  PROVE  \A n \in DOMAIN g : LearnedNodes(g, parameters)[n]
                               = LearnedNode(g, parameters, n, LearnedNodes(g, parameters))
<1> DEFINE upTo(k) == CHOOSE f : Learns(g, parameters, f, k)
           f == [n \in DOMAIN g |-> upTo(n + 1)[n]]
<1>1. \A k \in Nat : Learns(g, parameters, upTo(k), k)
  BY LearningExists, Zenon
<1>2. \A n \in DOMAIN g : f[n] = upTo(n + 1)[n] /\ n \in Nat /\ n + 1 \in Nat
  BY GraphFacts
<1> HIDE DEF upTo
<1>3. ASSUME NEW n \in DOMAIN g PROVE f[n] = LearnedNode(g, parameters, n, f)
  <2>1. Learns(g, parameters, upTo(n + 1), n + 1)
    BY <1>1, <1>2
  <2>2. upTo(n + 1)[n] = LearnedNode(g, parameters, n, upTo(n + 1))
    <3>1. upTo(n + 1) = [m \in {m \in DOMAIN g : m < n + 1} |->
                           LearnedNode(g, parameters, m, upTo(n + 1))]
      BY <2>1, Zenon DEF Learns
    <3>2. n \in {m \in DOMAIN g : m < n + 1}
      BY <1>2
    <3>3. QED
      BY <3>1, <3>2, Zenon
  <2> HIDE DEF f
  <2>3. ASSUME NEW i \in DOMAIN g[n].primes, NEW c \in {g[n].primes[i], g[n].subs[i]}
        PROVE  upTo(n + 1)[c] = f[c]
    <3>1. c \in DOMAIN g /\ c < n
      BY GraphFacts
    <3>2. c + 1 \in Nat /\ n + 1 \in Nat /\ c + 1 <= n + 1 /\ c < c + 1
      BY <1>2, <3>1
    <3>3. upTo(c + 1)[c] = upTo(n + 1)[c]
      <4>1. PICK j, k, t, h : j = c + 1 /\ k = n + 1 /\ t = upTo(j) /\ h = upTo(k)
        OBVIOUS
      <4>2. /\ j \in Nat /\ k \in Nat /\ j <= k /\ c < j
            /\ Learns(g, parameters, t, j) /\ Learns(g, parameters, h, k)
        BY <1>1, <3>2, <4>1
      <4>3. \A m \in DOMAIN g : m < j => t[m] = h[m]
        BY ONLY g \in Structures, <4>2, LearningsAgree
      <4>4. t[c] = h[c]
        BY <3>1, <4>2, <4>3
      <4>5. QED
        BY <4>1, <4>4
    <3>4. QED
      BY <1>2, <3>1, <3>3
  <2>4. LearnedNode(g, parameters, n, upTo(n + 1)) = LearnedNode(g, parameters, n, f)
    BY <2>3, LearnedAgrees
  <2>5. QED
    BY <1>2, <2>2, <2>4
<1>4. f = [n \in DOMAIN g |-> LearnedNode(g, parameters, n, f)]
  <2>1. f = [n \in DOMAIN g |-> f[n]]
    BY Zenon
  <2> HIDE DEF f
  <2>2. QED
    BY <1>3, <2>1, Zenon
<1> HIDE DEF f
<1>5. \E h : h = [n \in DOMAIN g |-> LearnedNode(g, parameters, n, h)]
  BY <1>4, Zenon
<1>6. LearnedNodes(g, parameters)
        = [n \in DOMAIN g |-> LearnedNode(g, parameters, n, LearnedNodes(g, parameters))]
  BY <1>5, Zenon DEF LearnedNodes
<1>7. QED
  BY <1>6, Zenon

-----------------------------------------------------------------------------
\* The list of a call is closed, and the roots are in it.
LEMMA ListIsClosed ==
  ASSUME SInv, Serialized
  PROVE  /\ Range(result) \in SUBSET DOMAIN structure
         /\ IsClosedIn(structure, Range(result))
         /\ \A k \in DOMAIN roots : roots[k] \in Range(result)
<1>1. /\ \A i \in DOMAIN result : ChildrenIn(structure, result[i]) \subseteq FromOn(i + 1)
      /\ \A i : FromOn(i) \subseteq Range(result)
  BY ChildrenAreLater, FromOnEnds
<1>2. IsClosedIn(structure, Range(result))
  BY <1>1 DEF IsClosedIn, Range
<1>3. Range(result) \in SUBSET DOMAIN structure
  BY ListFacts DEF Range, Nodes
<1>4. ASSUME NEW k \in DOMAIN roots PROVE roots[k] \in Range(result)
  <2>1. roots \in Seq(Nat) /\ next_root \in 1..Len(roots) + 1 /\ next_root > Len(roots)
    BY DEF SInv, RootsAreGiven, ListIsTyped, Serialized, RootsTaken
  <2>2. k < next_root
    BY <1>4, <2>1
  <2>3. QED
    BY <2>2 DEF SInv, SeenIsListed
<1>5. QED
  BY <1>2, <1>3, <1>4

\* What a call should return stays as it is while the call is the same.
LEMMA ExpectedStays ==
  ASSUME UNCHANGED serializerVars, UNCHANGED <<call, batch>>
  PROVE  /\ ExpectedNodes' = ExpectedNodes
         /\ Expected' = Expected
         /\ \A n : /\ TrueIn(structure', batch', n) = TrueIn(structure, batch, n)
                   /\ NoCounts(structure', n) = NoCounts(structure, n)
                   /\ ExpectedCounts(structure', batch', roots'[1], n)
                        = ExpectedCounts(structure, batch, roots[1], n)
         /\ \A x, n, place : PassedOn(x, n, place)' <=> PassedOn(x, n, place)
<1>1. structure' = structure /\ roots' = roots /\ result' = result /\ call' = call /\ batch' = batch
  BY DEF serializerVars
<1>2. \A n : ExpectedParameters(n)' = ExpectedParameters(n)
  BY <1>1 DEF ExpectedParameters, Parameter
<1>3. [n \in DOMAIN structure' |-> ExpectedParameters(n)'] = [n \in DOMAIN structure |-> ExpectedParameters(n)]
  BY <1>1, <1>2, Zenon
<1>4. ExpectedNodes' = ExpectedNodes
  BY <1>1, <1>3, Zenon DEF ExpectedNodes
<1>5. Expected = [r \in DOMAIN roots |-> ExpectedNodes[roots[r]]]
  BY Zenon DEF Expected, ExpectedNodes
<1>6. Expected' = [r \in DOMAIN roots' |-> ExpectedNodes'[roots'[r]]]
  BY Zenon DEF Expected, ExpectedNodes
<1>7. Expected' = Expected
  BY <1>1, <1>4, <1>5, <1>6, Zenon
<1>8. \A x, n, place : PassedOn(x, n, place)' <=> PassedOn(x, n, place)
  BY <1>1 DEF PassedOn, Elements, Primes, Subs
<1>9. QED
  BY <1>1, <1>4, <1>7, <1>8

\* Most of the invariant is about three passes and the end of the last.
LEMMA OtherPassesKeepGInv ==
  ASSUME GInv, LInv', pass' \notin {"values", "contexts", "parameters"},
         ~ (pass' = "reset" /\ position' = 1),
         UNCHANGED <<structure, value, context>>,
         batch'.data_size \in Nat, call' = "learn" => Len(roots') = 1
  PROVE  GInv'
<1>1. BatchInv'
  BY DEF BatchInv
<1>2. ValuesInv' /\ ContextsInv'
  BY DEF GInv, ValuesInv, ContextsInv, Nodes
<1>3. CountsInv' /\ NewNodesInv' /\ ReturnsExpected'
  BY DEF CountsInv, NewNodesInv, ReturnsExpected
<1>4. QED
  BY <1>1, <1>2, <1>3 DEF GInv

LEMMA BeginCallKeepsGInv ==
  ASSUME GInv, BeginCall
  PROVE  GInv'
<1>1. LInv'
  BY BeginCallKeepsLInv DEF GInv
<1>2. /\ pass' = "serialize" /\ UNCHANGED <<structure, value, context>>
      /\ \/ call' = "learn" /\ Len(roots') = 1 /\ batch' \in Batches
         \/ call' = "sample" /\ batch' = batch
  BY DEF BeginCall, Enter
<1>3. batch'.data_size \in Nat
  BY <1>2, LearnerAssumption DEF GInv, BatchInv
<1>4. QED
  BY <1>1, <1>2, <1>3, OtherPassesKeepGInv

LEMMA SerializeKeepsGInv ==
  ASSUME GInv, Serialize
  PROVE  GInv'
<1>1. LInv'
  BY SerializeKeepsLInv DEF GInv
<1>2. /\ pass' = "serialize" /\ UNCHANGED <<structure, value, context, batch, call, roots>>
  BY ListGrows DEF Serialize, passVars, GInv, LInv
<1>3. QED
  BY <1>1, <1>2, OtherPassesKeepGInv DEF GInv, BatchInv

LEMMA ResetNodeKeepsGInv ==
  ASSUME GInv, ResetNode
  PROVE  GInv'
<1>1. LInv'
  BY ResetNodeKeepsLInv DEF GInv
<1>2. /\ pass = "reset" /\ pass' = "reset" /\ position' = position + 1
      /\ UNCHANGED <<structure, value, context, batch, call, roots>>
  BY DEF ResetNode, serializerVars
<1>3. position' # 1
  BY <1>2 DEF GInv, LInv, Control
<1>4. QED
  BY <1>1, <1>2, <1>3, OtherPassesKeepGInv DEF GInv, BatchInv

LEMMA ReturnKeepsGInv ==
  ASSUME GInv, Return
  PROVE  GInv'
<1>1. LInv'
  BY ReturnKeepsLInv DEF GInv
<1>2. /\ pass' = "return" /\ call' = "none" /\ batch'.data_size = 0
      /\ UNCHANGED <<structure, value, context>>
  BY DEF Return, Enter, NoBatch
<1>3. QED
  BY <1>1, <1>2, OtherPassesKeepGInv

LEMMA EndSerializeKeepsGInv ==
  ASSUME GInv, EndSerialize
  PROVE  GInv'
<1>1. LInv'
  BY EndSerializeKeepsLInv DEF GInv
<1>2. /\ UNCHANGED serializerVars /\ UNCHANGED <<call, batch, value, context, data_counts, user_data>>
      /\ pass = "serialize" /\ position' = Len(result)
      /\ \/ call = "learn" /\ batch.data_size # 0 /\ pass' = "values"
         \/ ~ (call = "learn" /\ batch.data_size # 0) /\ pass' = "parameters"
  BY DEF EndSerialize, Enter
<1>3. structure' = structure /\ roots' = roots /\ result' = result
  BY <1>2 DEF serializerVars
<1>4. FromOn(position + 1)' = {}
  <2>1. Len(result) \in Nat /\ FromOn(Len(result) + 1) = {}
    BY ListFacts, FromOnEnds DEF GInv, LInv
  <2>2. QED
    BY <1>2, <1>3, <2>1 DEF FromOn
<1>5. BatchInv'
  BY <1>2, <1>3 DEF GInv, BatchInv
<1>6. ValuesInv' /\ ContextsInv'
  BY <1>2, <1>3, <1>4 DEF GInv, ValuesInv, ContextsInv, Nodes
<1>7. NewNodesInv' /\ ReturnsExpected'
  BY <1>2, <1>4 DEF NewNodesInv, ReturnsExpected
<1>8. CountsInv'
  <2>1. \A n \in Range(result) : data_counts[n] = NoCounts(structure, n)
    <3>1. Range(result) \subseteq Nodes
      BY ListFacts DEF GInv, LInv, Range
    <3>2. QED
      BY <1>2, <3>1 DEF GInv, LInv, CountsFollowPass
  <2>2. ASSUME call = "learn", pass' = "parameters", NEW n
        PROVE  ExpectedCounts(structure, batch, roots[1], n) = NoCounts(structure, n)
    <3>1. batch.data_size = 0
      BY <1>2, <2>2
    <3>2. QED
      BY <3>1, NothingToCount
  <2>3. QED
    BY <1>2, <1>3, <2>1, <2>2 DEF CountsInv
<1>9. QED
  BY <1>1, <1>5, <1>6, <1>7, <1>8 DEF GInv

LEMMA ComputeValueKeepsGInv ==
  ASSUME GInv, ComputeValue
  PROVE  GInv'
<1>1. LInv'
  BY ComputeValueKeepsLInv DEF GInv
<1>2. /\ UNCHANGED serializerVars /\ UNCHANGED <<call, batch, pass>>
      /\ pass = "values" /\ position > 0 /\ position' = position - 1
      /\ value' = [value EXCEPT ![At] = ValueOf(At)] /\ context' = [context EXCEPT ![At] = {}]
  BY DEF ComputeValue
<1>3. structure' = structure /\ roots' = roots /\ result' = result /\ batch' = batch
  BY <1>2 DEF serializerVars
<1>4. /\ SInv /\ Serialized /\ position \in Nat /\ Len(result) \in Nat /\ position \in DOMAIN result
      /\ At \in Nodes /\ structure \in Structures
  BY <1>2, ListFacts DEF GInv, LInv, Control, At
<1>5. FromOn(position + 1)' = FromOn(position + 1) \cup {At}
  <2>1. position' + 1 = position
    BY <1>2, <1>4
  <2>2. FromOn(position) = FromOn(position + 1) \cup {At}
    BY <1>4, FromOnStep DEF At
  <2>3. QED
    BY <1>3, <2>1, <2>2 DEF FromOn
<1>6. ValueOf(At) = TrueIn(structure, batch, At)
  <2>1. \A n \in FromOn(position + 1) : value[n] = TrueIn(structure, batch, n)
    BY <1>2 DEF GInv, ValuesInv
  <2>2. ChildrenIn(structure, At) \subseteq FromOn(position + 1)
    BY <1>4, ChildrenAreLater DEF At
  <2>3. \A i \in Elements(At) : {Primes(At)[i], Subs(At)[i]} \subseteq ChildrenIn(structure, At)
    BY <1>4, GraphFacts DEF Elements, Primes, Subs, Nodes
  <2>4. QED
    BY <1>4, <2>1, <2>2, <2>3, ValueIsTrueIn
<1>7. BatchInv'
  BY <1>2, <1>3 DEF GInv, BatchInv
<1>8. ValuesInv'
  <2>1. /\ DOMAIN value = Nodes
        /\ \A n \in FromOn(position + 1) : value[n] = TrueIn(structure, batch, n)
    BY <1>2 DEF GInv, ValuesInv
  <2>2. \A n \in FromOn(position + 1) \cup {At} : n \in Nodes
    BY <1>4, FromOnEnds, ListIsClosed DEF Nodes
  <2>3. /\ DOMAIN value' = Nodes
        /\ \A n \in Nodes : value'[n] = IF n = At THEN TrueIn(structure, batch, At) ELSE value[n]
    BY <1>2, <1>6, <2>1
  <2>4. \A n \in FromOn(position + 1) \cup {At} : value'[n] = TrueIn(structure', batch', n)
    BY <1>3, <2>1, <2>2, <2>3
  <2>5. QED
    BY <1>2, <1>3, <1>5, <2>3, <2>4 DEF ValuesInv, Nodes
<1>9. ContextsInv'
  <2>1. /\ DOMAIN context = Nodes
        /\ \A n \in FromOn(position + 1) : context[n] = {}
    BY <1>2 DEF GInv, ContextsInv
  <2>2. DOMAIN context' = Nodes /\ \A n \in FromOn(position + 1) \cup {At} : context'[n] = {}
    BY <1>2, <1>4, <2>1
  <2>3. QED
    BY <1>2, <1>3, <1>5, <2>2 DEF ContextsInv, Nodes
<1>10. CountsInv' /\ NewNodesInv' /\ ReturnsExpected'
  BY <1>2 DEF CountsInv, NewNodesInv, ReturnsExpected
<1>11. QED
  BY <1>1, <1>7, <1>8, <1>9, <1>10 DEF GInv

LEMMA EndValuesKeepsGInv ==
  ASSUME GInv, EndValues
  PROVE  GInv'
<1>1. LInv'
  BY EndValuesKeepsLInv DEF GInv
<1>2. /\ UNCHANGED serializerVars /\ UNCHANGED <<call, batch, value, data_counts>>
      /\ pass = "values" /\ position = 0 /\ pass' = "contexts" /\ position' = 1
      /\ context' = [context EXCEPT ![roots[1]] = AllExamples \ @]
  BY DEF EndValues, Enter
<1>3. structure' = structure /\ roots' = roots /\ result' = result /\ batch' = batch
  BY <1>2 DEF serializerVars
<1>4. /\ SInv /\ Serialized /\ FromOn(1) = Range(result) /\ Range(result) \subseteq Nodes
      /\ call = "learn" /\ Len(roots) = 1 /\ roots \in Seq(Nat)
  BY <1>2, FromOnEnds, ListIsClosed DEF GInv, LInv, Control, BatchInv, Nodes, SInv, RootsAreGiven
<1>5. roots[1] \in Range(result)
  <2>1. 1 \in DOMAIN roots
    BY <1>4
  <2>2. QED
    BY <1>4, <2>1, ListIsClosed
<1>6. FromOn(position)' = Range(result) /\ FromOn(position + 1) = Range(result)
  BY <1>2, <1>3, <1>4 DEF FromOn
<1>7. BatchInv'
  BY <1>2, <1>3 DEF GInv, BatchInv
<1>8. ValuesInv'
  BY <1>2, <1>3, <1>6 DEF GInv, ValuesInv, Nodes
<1>9. ContextsInv'
  <2>1. DOMAIN context = Nodes /\ \A n \in Range(result) : context[n] = {}
    BY <1>2, <1>6 DEF GInv, ContextsInv
  <2>2. /\ DOMAIN context' = Nodes
        /\ \A n \in Range(result) : context'[n] = IF n = roots[1] THEN ExamplesOf(batch) ELSE {}
    BY <1>2, <1>4, <1>5, <2>1 DEF AllExamples, ExamplesOf
  <2>3. \A x, n : ~ PassedOn(x, n, 1)
    <3>1. \A k \in DOMAIN result : ~ (k < 1)
      BY <1>4, ListFacts
    <3>2. QED
      BY <3>1 DEF PassedOn
  <2>4. \A x, n : ~ PassedOn(x, n, 1)'
    BY <1>2, <2>3, ExpectedStays
  <2>5. \A x, n : PassedOn(x, n, position)' <=> PassedOn(x, n, 1)'
    BY <1>2 DEF PassedOn
  <2>6. QED
    BY <1>2, <1>3, <1>6, <2>2, <2>4, <2>5 DEF ContextsInv, Nodes
<1>10. CountsInv'
  <2>1. \A n \in Range(result) : data_counts[n] = NoCounts(structure, n)
    BY <1>2, <1>4 DEF GInv, LInv, CountsFollowPass
  <2>2. QED
    BY <1>2, <1>3, <1>6, <2>1 DEF CountsInv
<1>11. NewNodesInv' /\ ReturnsExpected'
  BY <1>2 DEF NewNodesInv, ReturnsExpected
<1>12. QED
  BY <1>1, <1>7, <1>8, <1>9, <1>10, <1>11 DEF GInv

-----------------------------------------------------------------------------
\* A node that the pass downwards has come to knows the examples that reach
\* it: its parents were before it, and passed on what is to be passed on.
LEMMA ContextIsReached ==
  ASSUME GInv, pass = "contexts", position <= Len(result)
  PROVE  /\ At \in Nodes
         /\ context[At] = ReachedIn(structure, batch, roots[1], At)
         /\ \A i \in Elements(At) : Flow(At, i) = TakenIn(structure, batch, roots[1], At, i)
         /\ [k \in DOMAIN data_counts[At] |-> data_counts[At][k] + CountsOf(At)[k]]
              = ExpectedCounts(structure, batch, roots[1], At)
<1>1. /\ SInv /\ Serialized /\ position \in Nat /\ Len(result) \in Nat /\ DOMAIN result = 1..Len(result)
      /\ position \in DOMAIN result /\ At \in Nodes /\ structure \in Structures
      /\ batch.data_size \in Nat /\ Len(roots) = 1 /\ roots \in Seq(Nat)
  BY ListFacts DEF GInv, LInv, Control, At, BatchInv, SInv, RootsAreGiven
<1>2. /\ Range(result) \in SUBSET DOMAIN structure /\ IsClosedIn(structure, Range(result))
      /\ roots[1] \in Range(result)
  <2>1. 1 \in DOMAIN roots
    BY <1>1
  <2>2. QED
    BY <1>1, <2>1, ListIsClosed
<1>3. At \in FromOn(position)
  BY <1>1, FromOnStep DEF At
<1>4. ASSUME NEW x
      PROVE  x \in context[At] <=> x \in ReachedIn(structure, batch, roots[1], At)
  <2>1. x \in context[At] <=> /\ x \in ExamplesOf(batch)
                              /\ At = roots[1] \/ PassedOn(x, At, position)
    BY <1>3 DEF GInv, ContextsInv
  <2>2. x \in ReachedIn(structure, batch, roots[1], At) <=>
          /\ x \in ExamplesOf(batch)
          /\ \/ At = roots[1]
             \/ \E p \in Range(result) : \E i \in DOMAIN structure[p].primes :
                  /\ At \in {structure[p].primes[i], structure[p].subs[i]}
                  /\ x \in TakenIn(structure, batch, roots[1], p, i)
    BY <1>1, <1>2, ReachedFromParents DEF Nodes
  <2>3. ASSUME NEW k \in DOMAIN result, NEW i \in Elements(result[k]),
               At \in {Primes(result[k])[i], Subs(result[k])[i]}
        PROVE  k < position
    <3>1. result[k] \in DOMAIN structure
      BY <1>1, ListFacts DEF Nodes
    <3>2. result[position] \in ChildrenIn(structure, result[k])
      BY <1>1, <2>3, <3>1, GraphFacts DEF Elements, Primes, Subs, At
    <3>3. QED
      BY <1>1, <3>2, SInvImpliesParentsFirst DEF ParentsFirst
  <2>4. PassedOn(x, At, position) <=>
          \E p \in Range(result) : \E i \in DOMAIN structure[p].primes :
            /\ At \in {structure[p].primes[i], structure[p].subs[i]}
            /\ x \in TakenIn(structure, batch, roots[1], p, i)
    BY <2>3 DEF PassedOn, Elements, Primes, Subs, Range
  <2>5. QED
    BY <2>1, <2>2, <2>4
<1>5. context[At] = ReachedIn(structure, batch, roots[1], At)
  <2>1. \A x \in context[At] : x \in ReachedIn(structure, batch, roots[1], At)
    BY <1>4
  <2>2. \A x \in ReachedIn(structure, batch, roots[1], At) : x \in context[At]
    BY <1>4
  <2>3. QED
    BY <1>4
<1>6. \A i \in Elements(At) : /\ value[Primes(At)[i]] = TrueIn(structure, batch, Primes(At)[i])
                              /\ value[Subs(At)[i]] = TrueIn(structure, batch, Subs(At)[i])
  <2>1. \A n \in FromOn(position) : value[n] = TrueIn(structure, batch, n)
    BY DEF GInv, ValuesInv
  <2>2. ChildrenIn(structure, At) \subseteq FromOn(position)
    BY <1>1, ChildrenAreLater, FromOnStep DEF At
  <2>3. \A i \in Elements(At) : {Primes(At)[i], Subs(At)[i]} \subseteq ChildrenIn(structure, At)
    BY <1>1, GraphFacts DEF Elements, Primes, Subs, Nodes
  <2>4. QED
    BY <2>1, <2>2, <2>3
<1>7. \A i \in Elements(At) : Flow(At, i) = TakenIn(structure, batch, roots[1], At, i)
  BY <1>5, <1>6 DEF Flow, TakenIn, Elements, Primes, Subs
<1>8. data_counts[At] = NoCounts(structure, At)
  BY <1>3 DEF GInv, CountsInv
<1>9. [k \in DOMAIN data_counts[At] |-> data_counts[At][k] + CountsOf(At)[k]]
        = ExpectedCounts(structure, batch, roots[1], At)
  BY <1>1, <1>5, <1>6, <1>8, CountsAreExpected
<1>10. QED
  BY <1>1, <1>5, <1>7, <1>9

LEMMA ComputeContextKeepsGInv ==
  ASSUME GInv, ComputeContext
  PROVE  GInv'
<1>1. LInv'
  BY ComputeContextKeepsLInv DEF GInv
<1>2. /\ UNCHANGED serializerVars /\ UNCHANGED <<call, batch, pass>>
      /\ pass = "contexts" /\ position <= Len(result) /\ position' = position + 1
      /\ context' = [c \in DOMAIN context |->
                       IF c \in {At} THEN {}
                       ELSE context[c] \cup UNION {Flow(At, i) :
                              i \in {k \in Elements(At) : c \in {Primes(At)[k], Subs(At)[k]}}}]
      /\ value' = [c \in DOMAIN value |-> IF c \in {At} THEN {} ELSE value[c]]
      /\ data_counts' = [data_counts EXCEPT ![At] = [k \in DOMAIN @ |-> @[k] + CountsOf(At)[k]]]
  BY DEF ComputeContext, Cleared
<1>3. structure' = structure /\ roots' = roots /\ result' = result /\ batch' = batch
  BY <1>2 DEF serializerVars
<1>4. /\ SInv /\ position \in Nat /\ position \in DOMAIN result /\ DOMAIN result \subseteq Nat
      /\ At \in Nodes /\ DOMAIN data_counts = Nodes
      /\ Range(result) \subseteq Nodes
  BY <1>2, ListFacts DEF GInv, LInv, Control, At, CountsFollowPass, Range
<1>5. /\ FromOn(position)' = FromOn(position + 1)
      /\ FromOn(position) = FromOn(position + 1) \cup {At} /\ At \notin FromOn(position + 1)
      /\ FromOn(position) \subseteq Range(result) /\ At \in Range(result)
  BY <1>2, <1>3, <1>4, FromOnStep, FromOnEnds DEF FromOn, At
<1>6. BatchInv'
  BY <1>2, <1>3 DEF GInv, BatchInv
<1>7. ValuesInv'
  <2>1. DOMAIN value = Nodes /\ \A n \in FromOn(position) : value[n] = TrueIn(structure, batch, n)
    BY <1>2 DEF GInv, ValuesInv
  <2>2. DOMAIN value' = Nodes /\ \A n \in Nodes : n # At => value'[n] = value[n]
    BY <1>2, <2>1
  <2>3. QED
    BY <1>2, <1>3, <1>4, <1>5, <2>1, <2>2 DEF ValuesInv, Nodes
<1>8. ContextsInv'
  <2>1. /\ DOMAIN context = Nodes
        /\ \A n \in FromOn(position) : \A x :
             x \in context[n] <=> /\ x \in ExamplesOf(batch)
                                  /\ n = roots[1] \/ PassedOn(x, n, position)
    BY <1>2 DEF GInv, ContextsInv
  <2>2. \A i \in Elements(At) : Flow(At, i) = TakenIn(structure, batch, roots[1], At, i)
    BY <1>2, ContextIsReached
  <2>3. DOMAIN context' = Nodes
    BY <1>2, <2>1
  <2>4. ASSUME NEW n \in FromOn(position + 1), NEW x
        PROVE  x \in context'[n] <=> /\ x \in ExamplesOf(batch)
                                     /\ n = roots[1] \/ PassedOn(x, n, position + 1)
    <3>1. n \in Nodes /\ n # At /\ n \in FromOn(position)
      BY <1>4, <1>5
    <3>2. context'[n] = context[n] \cup UNION {Flow(At, i) :
                            i \in {k \in Elements(At) : n \in {Primes(At)[k], Subs(At)[k]}}}
      BY <1>2, <2>1, <3>1
    <3>3. x \in context'[n] <=>
            \/ x \in context[n]
            \/ \E i \in Elements(At) : /\ n \in {Primes(At)[i], Subs(At)[i]}
                                       /\ x \in TakenIn(structure, batch, roots[1], At, i)
      BY <2>2, <3>2
    <3>4. \A k \in DOMAIN result : k < position + 1 <=> k < position \/ k = position
      BY <1>4
    <3>5. PassedOn(x, n, position + 1) <=>
            \/ PassedOn(x, n, position)
            \/ \E i \in Elements(At) : /\ n \in {Primes(At)[i], Subs(At)[i]}
                                       /\ x \in TakenIn(structure, batch, roots[1], At, i)
      BY <1>4, <3>4 DEF PassedOn, At
    <3>6. \A i : x \in TakenIn(structure, batch, roots[1], At, i) => x \in ExamplesOf(batch)
      BY DEF TakenIn, ReachedIn
    <3>7. QED
      BY <2>1, <3>1, <3>3, <3>5, <3>6
  <2>5. \A x, n : PassedOn(x, n, position)' <=> PassedOn(x, n, position + 1)
    BY <1>2, <1>3 DEF PassedOn, Elements, Primes, Subs
  <2>6. QED
    BY <1>2, <1>3, <1>5, <2>3, <2>4, <2>5 DEF ContextsInv, Nodes
<1>9. CountsInv'
  <2>1. /\ \A n \in FromOn(position) : data_counts[n] = NoCounts(structure, n)
        /\ \A n \in Range(result) \ FromOn(position) :
             data_counts[n] = ExpectedCounts(structure, batch, roots[1], n)
    BY <1>2 DEF GInv, CountsInv
  <2>2. \A n \in Nodes : data_counts'[n] =
          IF n = At THEN [k \in DOMAIN data_counts[At] |-> data_counts[At][k] + CountsOf(At)[k]]
                    ELSE data_counts[n]
    BY <1>2, <1>4, Zenon
  <2>3. data_counts'[At] = ExpectedCounts(structure, batch, roots[1], At)
    BY <1>2, <1>4, <2>2, ContextIsReached
  <2>4. \A n \in FromOn(position + 1) : data_counts'[n] = NoCounts(structure, n)
    BY <1>4, <1>5, <2>1, <2>2
  <2>5. \A n \in Range(result) \ FromOn(position + 1) :
          data_counts'[n] = ExpectedCounts(structure, batch, roots[1], n)
    BY <1>4, <1>5, <2>1, <2>2, <2>3
  <2>6. QED
    BY <1>2, <1>3, <1>5, <2>4, <2>5 DEF CountsInv
<1>10. NewNodesInv' /\ ReturnsExpected'
  BY <1>2 DEF NewNodesInv, ReturnsExpected
<1>11. QED
  BY <1>1, <1>6, <1>7, <1>8, <1>9, <1>10 DEF GInv

LEMMA EndContextsKeepsGInv ==
  ASSUME GInv, EndContexts
  PROVE  GInv'
<1>1. LInv'
  BY EndContextsKeepsLInv DEF GInv
<1>2. /\ UNCHANGED serializerVars /\ UNCHANGED <<call, batch, value, context, data_counts>>
      /\ pass = "contexts" /\ position > Len(result)
      /\ pass' = "parameters" /\ position' = Len(result)
  BY DEF EndContexts, Enter
<1>3. structure' = structure /\ roots' = roots /\ result' = result /\ batch' = batch
  BY <1>2 DEF serializerVars
<1>4. /\ FromOn(position) = {} /\ FromOn(Len(result) + 1) = {} /\ call = "learn"
  BY <1>2, ListFacts, FromOnEnds DEF GInv, LInv, Control
<1>5. FromOn(position + 1)' = {}
  BY <1>2, <1>3, <1>4 DEF FromOn
<1>6. BatchInv' /\ ValuesInv' /\ ContextsInv'
  BY <1>2, <1>3 DEF GInv, BatchInv, ValuesInv, ContextsInv, Nodes
<1>7. CountsInv'
  <2>1. \A n \in Range(result) : data_counts[n] = ExpectedCounts(structure, batch, roots[1], n)
    BY <1>2, <1>4 DEF GInv, CountsInv
  <2>2. QED
    BY <1>2, <1>3, <1>4, <2>1 DEF CountsInv
<1>8. NewNodesInv' /\ ReturnsExpected'
  BY <1>2, <1>5 DEF NewNodesInv, ReturnsExpected
<1>9. QED
  BY <1>1, <1>6, <1>7, <1>8 DEF GInv

-----------------------------------------------------------------------------
\* The new node of a node is what the recursion says, once those of the
\* children are.
LEMMA NewNodeIsExpected ==
  ASSUME GInv, pass = "parameters", position > 0
  PROVE  At \in Nodes /\ NewNode(At) = ExpectedNodes[At]
<1>1. /\ SInv /\ Serialized /\ position \in Nat /\ position \in DOMAIN result
      /\ At \in Nodes /\ structure \in Structures
  BY ListFacts DEF GInv, LInv, Control, At
<1>2. PICK g, expected, P :
        /\ g = structure /\ expected = ExpectedNodes
        /\ P = [n \in DOMAIN structure |-> ExpectedParameters(n)]
  OBVIOUS
<1>3. expected[At] = LearnedNode(g, P, At, expected)
  <2>1. g \in Structures /\ At \in DOMAIN g
    BY <1>1, <1>2 DEF Nodes
  <2>2. LearnedNodes(g, P)[At] = LearnedNode(g, P, At, LearnedNodes(g, P))
    BY <2>1, LearnedUnfolds
  <2>3. expected = LearnedNodes(g, P)
    BY <1>2, Zenon DEF ExpectedNodes
  <2>4. QED
    BY <2>2, <2>3, Zenon
<1>4. P[At] = [k \in Counters(g, At) |-> Parameter(data_counts[At], k)]
  <2>1. At \in Range(result)
    BY <1>1 DEF At, Range
  <2>2. data_counts[At] = IF call = "learn" THEN ExpectedCounts(structure, batch, roots[1], At)
                                            ELSE NoCounts(structure, At)
    BY <2>1 DEF GInv, CountsInv
  <2>3. ExpectedParameters(At) = [k \in Counters(structure, At) |-> Parameter(data_counts[At], k)]
    BY <2>2, Zenon DEF ExpectedParameters
  <2>4. P[At] = ExpectedParameters(At)
    BY <1>1, <1>2 DEF Nodes
  <2>5. QED
    BY <1>2, <2>3, <2>4
<1>5. \A k \in Counters(g, At) : P[At][k] = Parameter(data_counts[At], k)
  BY <1>4, Zenon
<1>6. \A i \in DOMAIN g[At].primes : /\ user_data[g[At].primes[i]] = expected[g[At].primes[i]]
                                     /\ user_data[g[At].subs[i]] = expected[g[At].subs[i]]
  <2>1. \A n \in FromOn(position + 1) : user_data[n] = ExpectedNodes[n]
    BY DEF GInv, NewNodesInv
  <2>2. ChildrenIn(structure, At) \subseteq FromOn(position + 1)
    BY <1>1, ChildrenAreLater DEF At
  <2>3. \A i \in DOMAIN g[At].primes : {g[At].primes[i], g[At].subs[i]} \subseteq ChildrenIn(structure, At)
    BY <1>1, <1>2, GraphFacts DEF Nodes
  <2>4. QED
    BY <1>2, <2>1, <2>2, <2>3
<1>7. NewNode(At) = LearnedNode(g, P, At, expected)
  <2>1. g[At].type \in {"literal", "top", "decision"}
    BY <1>1, <1>2, GraphFacts DEF Nodes
  <2>2. CASE g[At].type = "literal"
    BY <1>2, <2>2 DEF NewNode, LearnedNode, TypeOf
  <2>3. CASE g[At].type = "top"
    <3>1. /\ P[At]["true"] = Parameter(data_counts[At], "true")
          /\ P[At]["false"] = Parameter(data_counts[At], "false")
      BY <1>5, <2>3 DEF Counters
    <3>2. /\ NewNode(At) = [type |-> "top", variable |-> g[At].variable,
                            true_parameter |-> Parameter(data_counts[At], "true"),
                            false_parameter |-> Parameter(data_counts[At], "false")]
          /\ LearnedNode(g, P, At, expected) =
               [type |-> "top", variable |-> g[At].variable,
                true_parameter |-> P[At]["true"], false_parameter |-> P[At]["false"]]
      BY <1>2, <2>3 DEF NewNode, LearnedNode, TypeOf
    <3>3. QED
      BY <3>1, <3>2, Zenon
  <2>4. CASE g[At].type = "decision"
    <3>1. \A i \in DOMAIN g[At].primes : P[At][i] = Parameter(data_counts[At], i)
      BY <1>5, <2>4 DEF Counters
    <3>2. {<<user_data[g[At].primes[i]], user_data[g[At].subs[i]], Parameter(data_counts[At], i)>> :
             i \in DOMAIN g[At].primes}
            = {<<expected[g[At].primes[i]], expected[g[At].subs[i]], P[At][i]>> : i \in DOMAIN g[At].primes}
      BY <1>6, <3>1
    <3>3. NewNode(At) = [type |-> "decision",
            elements |-> {<<user_data[g[At].primes[i]], user_data[g[At].subs[i]],
                            Parameter(data_counts[At], i)>> : i \in DOMAIN g[At].primes}]
      BY <1>2, <2>4 DEF NewNode, TypeOf, Elements, Primes, Subs
    <3>4. LearnedNode(g, P, At, expected) = [type |-> "decision",
            elements |-> {<<expected[g[At].primes[i]], expected[g[At].subs[i]], P[At][i]>> :
                            i \in DOMAIN g[At].primes}]
      BY <2>4 DEF LearnedNode
    <3>5. QED
      BY <3>2, <3>3, <3>4, Zenon
  <2>5. QED
    BY <2>1, <2>2, <2>3, <2>4
<1>8. QED
  BY <1>1, <1>2, <1>3, <1>7

LEMMA MakeNodeKeepsGInv ==
  ASSUME GInv, MakeNode
  PROVE  GInv'
<1>1. LInv'
  BY MakeNodeKeepsLInv DEF GInv
<1>2. /\ UNCHANGED serializerVars /\ UNCHANGED <<call, batch, pass, value, context, data_counts>>
      /\ pass = "parameters" /\ position > 0 /\ position' = position - 1
      /\ user_data' = [user_data EXCEPT ![At] = NewNode(At)]
  BY DEF MakeNode
<1>3. structure' = structure /\ roots' = roots /\ result' = result /\ batch' = batch
  BY <1>2 DEF serializerVars
<1>4. /\ SInv /\ position \in Nat /\ position \in DOMAIN result /\ At \in Nodes
      /\ DOMAIN user_data = Nodes
  BY <1>2, ListFacts DEF GInv, LInv, Control, At, ScratchFollowsPass
<1>5. FromOn(position + 1)' = FromOn(position + 1) \cup {At}
  <2>1. position' + 1 = position
    BY <1>2, <1>4
  <2>2. FromOn(position) = FromOn(position + 1) \cup {At}
    BY <1>4, FromOnStep DEF At
  <2>3. QED
    BY <1>3, <2>1, <2>2 DEF FromOn
<1>6. BatchInv' /\ ValuesInv' /\ ContextsInv'
  BY <1>2, <1>3 DEF GInv, BatchInv, ValuesInv, ContextsInv, Nodes
<1>7. CountsInv'
  BY <1>2, <1>3 DEF GInv, CountsInv
<1>8. NewNodesInv'
  <2>1. \A n \in FromOn(position + 1) : user_data[n] = ExpectedNodes[n]
    BY <1>2 DEF GInv, NewNodesInv
  <2>2. NewNode(At) = ExpectedNodes[At] /\ ExpectedNodes' = ExpectedNodes
    BY <1>2, NewNodeIsExpected, ExpectedStays
  <2>3. \A n \in FromOn(position + 1) : n \in Nodes
    BY <1>4, ListFacts DEF FromOn
  <2>4. user_data'[At] = NewNode(At) /\ \A n \in Nodes : n # At => user_data'[n] = user_data[n]
    BY <1>2, <1>4
  <2>5. \A n \in FromOn(position + 1) \cup {At} : user_data'[n] = ExpectedNodes[n]
    BY <2>1, <2>2, <2>3, <2>4
  <2>6. QED
    BY <1>5, <2>2, <2>5 DEF NewNodesInv
<1>9. ReturnsExpected'
  BY <1>2 DEF ReturnsExpected
<1>10. QED
  BY <1>1, <1>6, <1>7, <1>8, <1>9 DEF GInv

LEMMA EndParametersKeepsGInv ==
  ASSUME GInv, EndParameters
  PROVE  GInv'
<1>1. LInv'
  BY EndParametersKeepsLInv DEF GInv
<1>2. /\ UNCHANGED serializerVars /\ UNCHANGED <<call, batch, value, context>>
      /\ pass = "parameters" /\ position = 0 /\ pass' = "reset"
      /\ returned' = [r \in DOMAIN roots |-> user_data[roots[r]]]
  BY DEF EndParameters, Enter
<1>3. structure' = structure /\ roots' = roots /\ result' = result /\ batch' = batch
  BY <1>2 DEF serializerVars
<1>4. SInv /\ Serialized
  BY <1>2 DEF GInv, LInv, Control
<1>5. BatchInv' /\ ValuesInv' /\ ContextsInv' /\ CountsInv' /\ NewNodesInv'
  BY <1>2, <1>3 DEF GInv, BatchInv, ValuesInv, ContextsInv, CountsInv, NewNodesInv, Nodes
<1>6. \A r \in DOMAIN roots : user_data[roots[r]] = ExpectedNodes[roots[r]]
  <2>1. position + 1 = 1 /\ FromOn(1) = Range(result)
    BY <1>2, <1>4, FromOnEnds
  <2>2. \A n \in FromOn(position + 1) : user_data[n] = ExpectedNodes[n]
    BY <1>2 DEF GInv, NewNodesInv
  <2>3. QED
    BY <1>4, <2>1, <2>2, ListIsClosed
<1>7. Expected = [r \in DOMAIN roots |-> ExpectedNodes[roots[r]]]
  BY Zenon DEF Expected, ExpectedNodes
<1>8. returned' = Expected
  BY <1>2, <1>6, <1>7, Zenon
<1>9. Expected' = Expected
  BY <1>2, ExpectedStays
<1>10. ReturnsExpected'
  BY <1>8, <1>9 DEF ReturnsExpected
<1>11. QED
  BY <1>1, <1>5, <1>10 DEF GInv

LEMMA IdleKeepsGInv ==
  ASSUME GInv, LInv', UNCHANGED vars
  PROVE  GInv'
<1>1. /\ UNCHANGED serializerVars /\ UNCHANGED <<call, batch>>
      /\ UNCHANGED <<pass, position, value, context, data_counts, user_data, returned>>
      /\ structure' = structure /\ roots' = roots /\ result' = result
  BY DEF vars, passVars, serializerVars
<1>2. BatchInv' /\ ValuesInv'
  BY <1>1 DEF GInv, BatchInv, ValuesInv, Nodes, FromOn
<1>3. ContextsInv'
  <2>1. \A x, n : PassedOn(x, n, position)' <=> PassedOn(x, n, position)
    BY <1>1 DEF PassedOn, Elements, Primes, Subs
  <2>2. FromOn(position + 1)' = FromOn(position + 1) /\ FromOn(position)' = FromOn(position)
    BY <1>1 DEF FromOn
  <2>3. QED
    BY <1>1, <2>1, <2>2 DEF GInv, ContextsInv, Nodes
<1>4. CountsInv'
  BY <1>1 DEF GInv, CountsInv, FromOn
<1>5. NewNodesInv' /\ ReturnsExpected'
  <2>1. ExpectedNodes' = ExpectedNodes /\ Expected' = Expected
    BY <1>1, ExpectedStays
  <2>2. FromOn(position + 1)' = FromOn(position + 1)
    BY <1>1 DEF FromOn
  <2>3. QED
    BY <1>1, <2>1, <2>2 DEF GInv, NewNodesInv, ReturnsExpected
<1>6. QED
  BY <1>2, <1>3, <1>4, <1>5 DEF GInv

-----------------------------------------------------------------------------
(***************************************************************************)
(* The invariant of the results: the vectors are the examples that make a  *)
(* node true and those that reach it, the counters what is to be counted,  *)
(* and the new nodes what is to be learned, as far as the passes are.      *)
(***************************************************************************)
THEOREM CountingInvariant == Spec => []GInv
<1>1. LearnerInit => GInv
  <2>1. SUFFICES ASSUME LearnerInit PROVE GInv
    OBVIOUS
  <2>2. /\ call = "none" /\ pass = "return" /\ batch.data_size = 0
        /\ DOMAIN value = Nodes /\ DOMAIN context = Nodes
    BY <2>1 DEF LearnerInit, NoBatch, Nodes
  <2>3. LInv
    BY <2>1, LearnerStarts
  <2>4. BatchInv /\ ValuesInv /\ ContextsInv /\ CountsInv /\ NewNodesInv /\ ReturnsExpected
    BY <2>2 DEF BatchInv, ValuesInv, ContextsInv, CountsInv, NewNodesInv, ReturnsExpected
  <2>5. QED
    BY <2>3, <2>4 DEF GInv
<1>2. GInv /\ [Next]_vars => GInv'
  <2>1. SUFFICES ASSUME GInv, [Next]_vars PROVE GInv'
    OBVIOUS
  <2>2. CASE BeginCall
    BY <2>1, <2>2, BeginCallKeepsGInv
  <2>3. CASE Serialize \/ EndSerialize
    BY <2>1, <2>3, SerializeKeepsGInv, EndSerializeKeepsGInv
  <2>4. CASE ComputeValue \/ EndValues
    BY <2>1, <2>4, ComputeValueKeepsGInv, EndValuesKeepsGInv
  <2>5. CASE ComputeContext \/ EndContexts
    BY <2>1, <2>5, ComputeContextKeepsGInv, EndContextsKeepsGInv
  <2>6. CASE MakeNode \/ EndParameters
    BY <2>1, <2>6, MakeNodeKeepsGInv, EndParametersKeepsGInv
  <2>7. CASE ResetNode \/ Return
    BY <2>1, <2>7, ResetNodeKeepsGInv, ReturnKeepsGInv
  <2>8. CASE UNCHANGED vars
    <3>1. LInv'
      BY <2>1, <2>8, LearnerKeepsLInv DEF GInv
    <3>2. QED
      BY <2>1, <2>8, <3>1, IdleKeepsGInv
  <2>9. QED
    BY <2>1, <2>2, <2>3, <2>4, <2>5, <2>6, <2>7, <2>8 DEF Next, Work
<1>3. QED
  BY <1>1, <1>2, PTL DEF Spec

\* A call returns what the meaning of the PSDD says: the fractions of the
\* examples that take an element, of those that reach its node.
THEOREM LearningIsRight == Spec => []ReturnsExpected
<1>1. GInv => ReturnsExpected
  BY DEF GInv
<1>2. QED
  BY <1>1, CountingInvariant, PTL

=============================================================================
