CONSTANTS
  Structures <- MCStructures
  RootLists <- MCRootLists
  One = 8
  hash_value <- MCHash
  Draws <- AllDraws
SPECIFICATION Spec
INVARIANT SomeElementIsTaken
