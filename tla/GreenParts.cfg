SPECIFICATION Spec
CONSTANTS
  Remotes = {1, 2}
  NoCb = 0
  MaxFires = 2
  MaxWork = 2
  MaxSimple = 5
  MaxParks = 3
  MaxTimes = 2
  Scheds = {1, 2}
  Outside = 0
  Tasks = {1, 2, 3}
  NoTask = 0
  Sizes = {1, 2}
  MaxCached = 1
  MaxStacks = 3
INVARIANTS
  LoopsEndClean WokenAlone StacksKept
PROPERTIES
  LoopsCallBack TasksPark
