SPECIFICATION FairSpec
CONSTANTS
  Works = {w1}
  Comp = Comp
  List = List
  Wrap = 9
  Window = 2
  Delays = {4}
  Period = 3
  WaitTicks = 3
  MaxLate = 1
  Streaming = TRUE
INVARIANTS TimeoutSeen
