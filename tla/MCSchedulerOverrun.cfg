SPECIFICATION Spec
CONSTANTS
  Tasks = {t1, t2}
  List = List
  Wrap = 8
  SchedTicks = 2
  Overrun = TRUE
  MaxNest = 1
INVARIANT WalkEnds
