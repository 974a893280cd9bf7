SPECIFICATION Spec
CONSTANTS
  Queues = {1, 2}
  Nobody = 0
  RemoteClones = FALSE
INVARIANT
  TeardownSucceeds
