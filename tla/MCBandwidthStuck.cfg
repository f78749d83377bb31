SPECIFICATION Spec
CONSTANTS
  MinBitrate = 5000
  MaxBitrate = 1000000000
  StartBitrate = 600000
  PacketLength = 1312
  Reports <- LossyReports
  Elapsed = {20000}
  MaxReports = 12
INVARIANT NeverStuck
CHECK_DEADLOCK FALSE
