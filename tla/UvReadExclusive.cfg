CONSTANTS
  h1 = h1
  h2 = h2
  h3 = h3
  Loop = Loop
  Handles <- ThreeClones
SPECIFICATION Spec
INVARIANT ExclusiveReaders
