\* The default: an adaptive cushion behind its start gate, carrier held through a stall.
SPECIFICATION FairSpec
CONSTANTS
  None = None
  PacketTicks = 1  MuxRate = 1  PcrWrap = 64  GapTicks = 8
  SlotTime = 2  PacketsPerDatagram = 1
  Adaptive = TRUE  Floor = 2  Targets = {2, 4}  MaxLatency = 3  StartDeadline = 4
  Regenerate = TRUE  PcrMaxPackets = 3
  StallKind = "adaptive"  StallSpan = 1  StallPolicy = "continue"
  PollBudget = 2  HealthInterval = 50
  RateUnit = 4  ReleaseRates = {2}
  SourcePackets <- PlainSource
  MaxInput = 2  InputUntil = 4  Horizon = 13  TimerSlack = 0  MaxLate = 1
INVARIANTS CleanEnd
PROPERTIES StalledCarrierIsEmpty EndDrains EveryPacketLeaves
CHECK_DEADLOCK FALSE
