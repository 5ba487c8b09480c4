\* A pinned cushion under StallPolicy::Fail, with a pinned timeout.
SPECIFICATION FairSpec
CONSTANTS
  None = None
  PacketTicks = 1  MuxRate = 1  PcrWrap = 64  GapTicks = 8
  SlotTime = 1  PacketsPerDatagram = 2
  Adaptive = FALSE  Floor = 1  Targets = {1}  MaxLatency = 2  StartDeadline = 4
  Regenerate = FALSE  PcrMaxPackets = 3
  StallKind = "after"  StallSpan = 3  StallPolicy = "fail"
  PollBudget = 2  HealthInterval = 50
  RateUnit = 2  ReleaseRates = {1, 2}
  SourcePackets <- PlainSource
  MaxInput = 3  InputUntil = 6  Horizon = 20  TimerSlack = 1  MaxLate = 1
INVARIANTS FailsEmpty
PROPERTIES SilenceEndsRun
CHECK_DEADLOCK FALSE
