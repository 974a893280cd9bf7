CONSTANTS
  h1 = h1
  h2 = h2
  h3 = h3
  Loop = Loop
  Handles <- ThreeClones
SPECIFICATION FairSpec
INVARIANTS TypeOK PatientReadersExclude PatientNoPanic QueueExact
PROPERTIES CancelMeansTimeout ReadsReturn ClosedQueueDrains
