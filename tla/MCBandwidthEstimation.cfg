SPECIFICATION Spec
CONSTANTS
  MinBitrate = 5000
  MaxBitrate = 1400000
  StartBitrate = 600000
  PacketLength = 1312
  Reports <- MixedReports
  Elapsed = {400, 1001}
  MaxReports = 6
INVARIANTS TypeOK EstimateCapped PacketsConserved TargetInStep
PROPERTIES NoFallForDelay MovesApart
CHECK_DEADLOCK FALSE
