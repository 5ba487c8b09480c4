\* Two tasks share a handle to a pacer that measures its rate.
SPECIFICATION Spec
CONSTANTS
  None = None
  WarmupPcrs = 3  WarmupMax = 4  PacketTicks = 4  PcrWrap = 64  Headroom = 15  Fallback = 5
  Pushers = {"p1", "p2"}  Nobody = Nobody
  Sync = 71  PacketSize = 2  ChannelSize = 2
  MaxLatency = 4
  PcrOf <- PcrOfByte  Stuffing = 1  Scenarios <- PushedScenarios
  MaxCancels = 1
INVARIANTS OrderKept CloseDeliversAll
PROPERTIES Framed HandleReturns NeverGuesses WarmUpKept
CHECK_DEADLOCK FALSE
