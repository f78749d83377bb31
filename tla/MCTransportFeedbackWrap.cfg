SPECIFICATION Spec
CONSTANTS
  SeqSpace = 8
  AgeLimit = 3
  PacketSizes = {1312}
  FirstSeqs = {1}
  RefSpan = 3
  MaxDelta = 2
  MaxUnwrapped = 14
  Networks <- FewPackets
PROPERTY ArrivalClock
CHECK_DEADLOCK FALSE
