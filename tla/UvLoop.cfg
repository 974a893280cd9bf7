SPECIFICATION Spec
CONSTANTS
  Queues = {1, 2}
  Scheds = {1, 2, 3}
  Wanderers = {1, 2, 3}
  IoHome = 1
  Regular = {1, 2}
  PoolOf <- OnePool
  Friend <- FirstIsFriend
  HomeOf <- PinnedHere
  StartOf <- StartsAnywhere
  Callers = {1, 2}
  MaxOps = 3
  MaxWrites = 2
  MaxActions = 5
  Signals = {1, 2}
  MaxStarts = 2
  Movers = {1, 2}
  Names = {"a", "b"}
  Loops = {1, 2}
  Plans <- AllPlans
  Depth = 3
  None = 0
INVARIANTS
  QueueKeepsLoop HomingSafe RequestsSafe CallbacksCurrent TreesAgree
PROPERTIES
  StepsCurrent OperationsReturn
