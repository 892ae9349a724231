CONSTANTS
  Structures <- MCStructures
  RootLists <- MCRootLists
  One = 8
  hash_value <- MCHash
  Draws <- BelowOne
SPECIFICATION Spec
INVARIANTS
  SamplesAreRight
  SomeElementIsTaken
