\* A pinned cushion, StallPolicy::Mute: silences, stalls, returns.
SPECIFICATION Spec
CONSTANTS
  None = None
  PacketTicks = 1  MuxRate = 1  PcrWrap = 64  GapTicks = 8
  SlotTime = 1  PacketsPerDatagram = 2
  Adaptive = FALSE  Floor = 1  Targets = {1}  MaxLatency = 2  StartDeadline = 4
  Regenerate = TRUE  PcrMaxPackets = 3
  StallKind = "adaptive"  StallSpan = 2  StallPolicy = "mute"
  PollBudget = 2  HealthInterval = 50
  RateUnit = 2  ReleaseRates = {1}
  SourcePackets <- StallingSource
  MaxInput = 4  InputUntil = 9  Horizon = 11  TimerSlack = 1  MaxLate = 1
INVARIANTS StallAnnounced ReleasedAtMediaRate
PROPERTIES MuteExactlyWhenGone StallEndsWithContent ResumeFlagged
CHECK_DEADLOCK FALSE
