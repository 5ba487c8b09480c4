SPECIFICATION Spec
CONSTANTS
  None = None
  DefaultLatency = 2
  DefaultMaxLatency = 20
  DefaultCeiling = 80
  DefaultFactor = 25
  DefaultGrace = 10
  Offered <- MCOffered
  Leads <- MCLeads
  MaxOptions = 4
  MaxWatched = 1
  MaxTime = 6
INVARIANTS StartsSound SaidIsDone
PROPERTIES MistypedExits2 LinesSpaced
CHECK_DEADLOCK FALSE
