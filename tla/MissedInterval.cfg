\* One run lost where PCR intervals do not divide into slots.
SPECIFICATION Spec
CONSTANTS
  None = None
  PacketTicks = 3  MuxRate = 2  PcrWrap = 50  GapTicks = 14
  Pids <- MCPids  CcModulo = 16  RecentSpans = 2
  PacketsPerDatagram = 3  Latency = 12  MaxLatency = 18  PcrMaxPackets = 2
  StallAfter = 20  PollBudget = 4
  Legs <- OneLeg  Feeds <- UnevenFeeds
  MaxLosses = 1  MaxLate = 1  Horizon = 90
INVARIANT NeverContradicts
CHECK_DEADLOCK FALSE
