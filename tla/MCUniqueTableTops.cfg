CONSTANTS
  Literals <- MCLiterals
  TopNodes <- SameTrueParameter
  Parameters = {"0.1", "0.9"}
  DecisionParameters = {"0.1"}
  DecisionFlags = {0}
  InnerVtrees <- MCVtrees
  MaxElements = 2
  MaxNodes = 4
SPECIFICATION Spec
INVARIANT AnswersRequest
