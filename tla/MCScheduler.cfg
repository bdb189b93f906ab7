SPECIFICATION FairSpec
CONSTANTS
  Tasks = {t1, t2}
  List = List
  Wrap = 4
  SchedTicks = 1
  Overrun = FALSE
  MaxNest = 3
INVARIANTS TypeOK QueueWellFormed RunsQueuedTask
PROPERTIES PicksEarliest KeepsRunning
