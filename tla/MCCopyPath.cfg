SPECIFICATION Spec
CONSTANTS
  Period = 4
  Pages = 4
  PageSize = 6
  HostPeriods = 3
  DaiPeriods = 3
INVARIANTS TypeOK HostInStep PeriodWhole InBounds LeadExact HwInStep
PROPERTIES EosHonest
