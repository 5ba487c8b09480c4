\* Bursts at up to the mux rate, a source clock that loops, wraps and is spliced.
SPECIFICATION Spec
CONSTANTS
  None = None
  PacketTicks = 3  MuxRate = 2  PcrWrap = 16  GapTicks = 5
  SlotTime = 1  PacketsPerDatagram = 2
  Adaptive = FALSE  Floor = 1  Targets = {1}  MaxLatency = 3  StartDeadline = 4
  Regenerate = TRUE  PcrMaxPackets = 2
  StallKind = "off"  StallSpan = 0  StallPolicy = "mute"
  PollBudget = 2  HealthInterval = 50
  RateUnit = 2  ReleaseRates = {1, 2}
  SourcePackets <- LoopingSource
  MaxInput = 4  InputUntil = 5  Horizon = 8  TimerSlack = 0  MaxLate = 1
INVARIANTS TypeOK Conservation InOrder
PROPERTIES PcrByteLocked PcrRepeated
CHECK_DEADLOCK FALSE
