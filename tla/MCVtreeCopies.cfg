CONSTANTS
  Originals <- MCOriginals
  Maps <- MCMaps
  MaxCalls = 2
SPECIFICATION Spec
INVARIANT CopiesAreRestrictions
