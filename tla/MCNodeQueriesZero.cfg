CONSTANTS
  Structures <- MCStructures
  RootLists <- MCRootLists
  Evidences <- MCEvidences
  One = 4
SPECIFICATION Spec
INVARIANT EveryFileIsReadBack
