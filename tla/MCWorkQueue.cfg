SPECIFICATION FairSpec
CONSTANTS
  Works = {w1}
  Comp = Comp
  List = List
  Wrap = 8
  Window = 1
  Delays = {2, 4}
  Period = 3
  WaitTicks = 3
  MaxLate = 1
  Streaming = TRUE
INVARIANTS TypeOK ListExact NoneMissed NeverEarly WaitHonest
PROPERTIES WaitReturns
