\* A leg that loses runs and joins late, over jitter.
SPECIFICATION Spec
CONSTANTS
  None = None
  PacketTicks = 3  MuxRate = 2  PcrWrap = 50  GapTicks = 14
  Pids <- MCPids  CcModulo = 16  RecentSpans = 2
  PacketsPerDatagram = 3  Latency = 12  MaxLatency = 18  PcrMaxPackets = 2
  StallAfter = 20  PollBudget = 4
  Legs <- MCLegs  Feeds <- MCFeeds
  MaxLosses = 3  MaxLate = 1  Horizon = 90
INVARIANTS PlacedRise NeverContradicts Accounted PcrRepeated PcrFollowsSource InPhase BackOnAir
PROPERTIES NumbersRise PcrByteLocked
CHECK_DEADLOCK FALSE
