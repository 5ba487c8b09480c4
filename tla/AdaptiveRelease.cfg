SPECIFICATION Spec
CONSTANTS
  None = None
  RateUnit = 10000
  Window = 3
  DeliveryGap = 400
  BurstyLead = 400
  PcrWrap = 5000
  DiscontinuityGap = 1000
  CarrierRate = 600
  StallClockPackets = 60
  MinSample = 150
  RateWindow = 2000
  ServoGain = 5
  Precision = 16
  DefaultLatency = 300
  DefaultMaxLatency = 2000
  DefaultCeiling = 4000
  DefaultFactor = 25
  DefaultGrace = 1000
  SlotTime = 100
  SlotPackets = 6
  StartPoll = 400
  Feeds <- MCFeeds
  True <- MCTrue
  Rides <- MCRides
  Continuous <- MCContinuous
  MaxTime = 30000
INVARIANTS RateRecovered RidesGaps OpensInTime
CHECK_DEADLOCK FALSE
