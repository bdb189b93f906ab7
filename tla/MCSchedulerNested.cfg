SPECIFICATION Spec
CONSTANTS
  Tasks = {t1, t2}
  List = List
  Wrap = 4
  SchedTicks = 1
  Overrun = FALSE
  MaxNest = 2
PROPERTY RunningNotPicked
