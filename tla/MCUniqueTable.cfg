CONSTANTS
  Literals <- MCLiterals
  TopNodes <- MCTopNodes
  Parameters = {"0.1", "0.9"}
  DecisionParameters = {"0.1"}
  DecisionFlags = {0, 1}
  InnerVtrees <- MCVtrees
  MaxElements = 2
  MaxNodes = 5
SPECIFICATION Spec
INVARIANTS
  TypeOK
  IndexesAreUnique
  ChildrenAreInTable
  HeldIsInTable
  AnswersRequest
PROPERTY StoreSpec
