CONSTANTS
  Vtree <- MCVtree
  Programs <- MCPrograms
SPECIFICATION Spec
INVARIANTS
  NodesAreConformed
  AssertionsHold
  ProductsAreRight
  ConversionsAreRight
  CopiesAreRight
  FlagsAreOfTheCall
