SPECIFICATION Spec
CONSTANTS
  None = None
  DefaultLatency = 2
  DefaultMaxLatency = 20
  DefaultCeiling = 80
  DefaultFactor = 25
  DefaultGrace = 10
  Offered <- MCOffered
  Leads <- MCLeads
  MaxOptions = 2
  MaxWatched = 1
  MaxTime = 6
INVARIANT NeverUnwinds
CHECK_DEADLOCK FALSE
